---------------------------- MODULE Spec2Model ----------------------------
(***************************************************************************)
(* SantaAdmin: the text dispatch pipeline (handle_text_commands), the      *)
(* broadcast session commands (sayon / sayson / sayoff / sayoffall) and    *)
(* the stores they read and write.                                         *)
(*                                                                         *)
(* Text is a sequence of Unicode code points, so that str.lower(),         *)
(* str.strip(), str.split(), str.startswith(), str.replace() and the       *)
(* regular expressions of the source are computed as Python computes them. *)
(* Every text literal carries the string it spells in a comment.           *)
(***************************************************************************)
EXTENDS Integers, Sequences, FiniteSets, TLC

VARIABLES
    online_modes,       \* table online_modes: the broadcast sessions
    say_blocks,         \* table say_blocks: user ids blocked from sayon/sayson
    roles,              \* table roles: user_id -> role
    users,              \* table users: the local directory
    custom_names,       \* table custom_names: user_id -> display name
    personal_commands,  \* table personal_commands: the template commands
    personal_command_media, \* table personal_command_media: the media pools
    command_aliases,    \* table command_aliases
    sqlite_sequence,    \* table sqlite_sequence: the AUTOINCREMENT counters
    foreign_keys,       \* the connections enforce foreign keys
    now,                \* wall clock, in minutes
    ev,                 \* outcome of the last handled update
    pair,               \* per principal: progress of an observed toggle pair
    inv                 \* handler invocations in flight (concurrent delivery)

\* the tables no session command writes
stores == <<roles, users, custom_names, personal_commands,
            personal_command_media, command_aliases, sqlite_sequence,
            foreign_keys>>

vars == <<online_modes, say_blocks, stores, now, ev, pair, inv>>

----------------------------------------------------------------------------
(* Python str operations on sequences of code points                       *)

None == 0   \* Python None / a falsy id: no chat, no user, no row

Min(a, b) == IF a <= b THEN a ELSE b

SubStr(s, i, j) == IF j < i THEN <<>> ELSE SubSeq(s, i, j)

\* str.isspace() for the characters a message can hold
IsSpace(c) == c \in {9, 10, 11, 12, 13, 32, 160}

\* str.lower() of one code point: ASCII, Cyrillic U+0400..U+042F, U+0490
lower_char(c) ==
    IF c >= 65 /\ c <= 90 THEN c + 32
    ELSE IF c >= 1040 /\ c <= 1071 THEN c + 32
    ELSE IF c >= 1024 /\ c <= 1039 THEN c + 80
    ELSE IF c = 1168 THEN 1169
    ELSE c

\* str.upper() of one code point
upper_char(c) ==
    IF c >= 97 /\ c <= 122 THEN c - 32
    ELSE IF c >= 1072 /\ c <= 1103 THEN c - 32
    ELSE IF c >= 1104 /\ c <= 1119 THEN c - 80
    ELSE IF c = 1169 THEN 1168
    ELSE c

\* str.lower()
lower(s) == [i \in 1..Len(s) |-> lower_char(s[i])]

\* str.upper()
upper(s) == [i \in 1..Len(s) |-> upper_char(s[i])]

\* the first index from i on that holds no whitespace; Len(s) + 1 without
RECURSIVE first_nonspace(_, _)
first_nonspace(s, i) ==
    IF i <= Len(s) /\ IsSpace(s[i]) THEN first_nonspace(s, i + 1) ELSE i

\* the last index up to i that holds no whitespace; 0 without
RECURSIVE last_nonspace(_, _)
last_nonspace(s, i) ==
    IF i >= 1 /\ IsSpace(s[i]) THEN last_nonspace(s, i - 1) ELSE i

\* str.strip(): drop leading and trailing whitespace
strip(s) == SubStr(s, first_nonspace(s, 1), last_nonspace(s, Len(s)))

\* str.startswith(p)
startswith(s, p) == Len(p) <= Len(s) /\ SubSeq(s, 1, Len(p)) = p

\* str.find(p) from position i (1-based); 0 when p does not occur
RECURSIVE find_from(_, _, _)
find_from(s, p, i) ==
    IF i + Len(p) - 1 > Len(s) THEN 0
    ELSE IF SubSeq(s, i, i + Len(p) - 1) = p THEN i
    ELSE find_from(s, p, i + 1)

\* str.replace(p, r): every non-overlapping occurrence, left to right
RECURSIVE replace(_, _, _)
replace(s, p, r) ==
    LET i == IF p = <<>> THEN 0 ELSE find_from(s, p, 1)
    IN  IF i = 0 THEN s
        ELSE SubStr(s, 1, i - 1) \o r
             \o replace(SubStr(s, i + Len(p), Len(s)), p, r)

\* str.split(): the maximal runs of non-whitespace, in order
RECURSIVE split(_)
split(s) ==
    LET t == strip(s)
    IN  IF t = <<>> THEN <<>>
        ELSE LET sp == {i \in 1..Len(t) : IsSpace(t[i])}
                 e  == IF sp = {} THEN Len(t) + 1
                       ELSE CHOOSE i \in sp : \A j \in sp : i <= j
             IN  <<SubSeq(t, 1, e - 1)>> \o split(SubStr(t, e, Len(t)))

\* " ".join(words)
RECURSIVE join(_)
join(ws) ==
    IF ws = <<>> THEN <<>>
    ELSE IF Len(ws) = 1 THEN ws[1]
    ELSE ws[1] \o <<32>> \o join(Tail(ws))

\* str(n) for n >= 0, and int(s) for a decimal literal with optional sign
RECURSIVE str_of_int(_)
str_of_int(n) ==
    IF n < 10 THEN <<48 + n>> ELSE str_of_int(n \div 10) \o <<48 + (n % 10)>>

IsDigit(c) == c >= 48 /\ c <= 57

RECURSIVE digits_value(_)
digits_value(s) ==
    IF s = <<>> THEN 0
    ELSE 10 * digits_value(SubSeq(s, 1, Len(s) - 1)) + (s[Len(s)] - 48)

\* int(s) succeeds: optional sign, then digits only (after strip)
is_int(s) ==
    LET t == strip(s)
        d == IF t # <<>> /\ t[1] \in {43, 45} THEN Tail(t) ELSE t
    IN  d # <<>> /\ \A i \in 1..Len(d) : IsDigit(d[i])

int_of(s) ==
    LET t == strip(s)
        d == IF t[1] \in {43, 45} THEN Tail(t) ELSE t
    IN  IF t[1] = 45 THEN 0 - digits_value(d) ELSE digits_value(d)

----------------------------------------------------------------------------
(* Configuration (config.json) and the principals of the model             *)

USER_CHAT_ID == 100          \* the default broadcast chat
LOG_CHANNEL_ID == 900
SECONDARY_CHAT_IDS == {600}
OWNER_IDS == {9}

\* The users that send updates: 9 is an owner; 7, 3 and 1 get their role
\* from the roles table (head_admin, gnome, none).
Principals == {9, 7, 3, 1}

\* Group chats: 100 and 600 are allowed chats, 700 is any other group.
\* The private chat of user u has id u.
GroupChats == {100, 600, 700}
Chats == GroupChats \cup Principals

chat_type(chat_id) == IF chat_id \in Principals THEN "private" ELSE "group"

\* update.effective_user.full_name / .username of the senders
full_name(u) ==
    CASE u = 9 -> <<65, 108, 105, 99, 101>>    \* "Alice"
      [] u = 7 -> <<72, 97, 110, 110, 97>>     \* "Hanna"
      [] u = 3 -> <<71, 110, 111, 109>>        \* "Gnom"
      [] OTHER -> <<77, 101, 109>>             \* "Mem"

username(u) ==
    CASE u = 9 -> <<111, 119, 110, 101, 114, 104, 97, 110, 100, 108, 101>> \* "ownerhandle"
      [] u = 7 -> <<104, 97, 110, 110, 97, 95, 97>>   \* "hanna_a"
      [] OTHER -> <<>>                                \* no username

NoneStr == "None"   \* Python None where the other values are strings

----------------------------------------------------------------------------
(* Database: roles, say_blocks, online_modes                               *)

\* Database.get_role: the role of the row, None without a row
get_role(user_id) ==
    IF user_id \in DOMAIN roles THEN roles[user_id] ELSE NoneStr

\* Database.is_say_blocked
is_say_blocked(user_id) == user_id \in say_blocks

\* a plain INSERT into a table without a key
plain_insert(rows, row) == rows \cup {row}

\* INSERT OR REPLACE on a table whose PRIMARY KEY is user_id: the row with
\* the same key is deleted, then the new row is inserted.
InsertOrReplace(rows, row) ==
    {r \in rows : r.user_id # row.user_id} \cup {row}

\* The row set_online_mode writes: started_at and last_activity are the
\* time of the call
online_row_of(user_id, mode, source_chat_id, target_chat_id, t) ==
    [user_id |-> user_id, mode |-> mode, started_at |-> t,
     last_activity |-> t, source_chat_id |-> source_chat_id,
     target_chat_id |-> target_chat_id]

\* Database.set_online_mode(user_id, mode, source_chat_id, target_chat_id)
set_online_mode(user_id, mode, source_chat_id, target_chat_id) ==
    InsertOrReplace(online_modes,
        online_row_of(user_id, mode, source_chat_id, target_chat_id, now))

\* cursor.fetchone() of SELECT ... FROM <rows> WHERE user_id = ?
fetch_row(rows, user_id) ==
    LET hit == {r \in rows : r.user_id = user_id}
    IN  IF hit = {} THEN {} ELSE {CHOOSE r \in hit : TRUE}

online_row(user_id) == fetch_row(online_modes, user_id)

\* SELECT mode FROM <rows> WHERE user_id = ?
mode_in(rows, user_id) ==
    IF fetch_row(rows, user_id) = {} THEN NoneStr
    ELSE (CHOOSE r \in fetch_row(rows, user_id) : TRUE).mode

\* a lookup that finds no session
no_mode(user_id) == NoneStr

\* Database.get_online_mode
get_online_mode(user_id) == mode_in(online_modes, user_id)

\* Database.get_online_mode_source
get_online_mode_source(user_id) ==
    IF online_row(user_id) = {} THEN None
    ELSE (CHOOSE r \in online_row(user_id) : TRUE).source_chat_id

\* Database.get_online_mode_target
get_online_mode_target(user_id) ==
    IF online_row(user_id) = {} THEN None
    ELSE (CHOOSE r \in online_row(user_id) : TRUE).target_chat_id

\* Database.update_online_activity: UPDATE ... SET last_activity = now
update_online_activity(user_id) ==
    {IF r.user_id = user_id THEN [r EXCEPT !.last_activity = now] ELSE r
       : r \in online_modes}

\* DELETE FROM <rows> WHERE user_id = ?
delete_row(rows, user_id) == {r \in rows : r.user_id # user_id}

\* Database.remove_online_mode
remove_online_mode(user_id) == delete_row(online_modes, user_id)

\* Database.get_all_online_modes
get_all_online_modes == online_modes

\* Database.clear_all_online_modes: DELETE FROM online_modes
clear_all_online_modes == {}

----------------------------------------------------------------------------
(* Role predicates (bot.py)                                                 *)

is_allowed_chat(chat_id) ==
    chat_id = USER_CHAT_ID \/ chat_id \in SECONDARY_CHAT_IDS

is_owner(user_id) == user_id \in OWNER_IDS

is_head_admin(user_id) == get_role(user_id) = "head_admin"

is_gnome(user_id) == get_role(user_id) = "gnome"

can_use_bot(user_id) ==
    is_owner(user_id) \/ is_head_admin(user_id) \/ is_gnome(user_id)

can_manage_gnomes(user_id) == is_owner(user_id) \/ is_head_admin(user_id)

\* a check that every role of the roles table passes
bulk_for_any_role(user_id) == can_use_bot(user_id)

can_ban_mute(user_id) == is_owner(user_id) \/ is_head_admin(user_id)

----------------------------------------------------------------------------
(* Outbound messages                                                       *)

\* One outbound transport call.  kind: "reply" (update.message.reply_text),
\* "send" (bot.send_message), "log" (log_to_channel), "edit"
\* (query.edit_message_text).  text: the computed body as code points, for
\* the bodies the model computes; note: which fixed user-facing copy it is.
Msg(kind, to, text, note) ==
    [kind |-> kind, to |-> to, text |-> text, note |-> note]

\* reply_and_delete(update, <fixed copy>)
reply_and_delete(chat_id, note) == <<Msg("reply", chat_id, <<>>, note)>>

\* log_to_channel: sends only when LOG_CHANNEL_ID is set
log_to_channel(note) ==
    IF LOG_CHANNEL_ID # None THEN <<Msg("log", LOG_CHANNEL_ID, <<>>, note)>>
    ELSE <<>>

\* re.sub(r'[<>&]', '', text), re.sub(r'[\[\]]', '', text), strip()
sanitize_message_text(text) ==
    strip(SelectSeq(text, LAMBDA c : c \notin {60, 62, 38, 91, 93}))

\* as sanitize_message_text, and '@' and '#' removed too
safe_send_message(text) ==
    strip(SelectSeq(text, LAMBDA c : c \notin {60, 62, 38, 64, 35, 91, 93}))

----------------------------------------------------------------------------
(* Session commands (bot.py)                                               *)

\* What a handler leaves behind: the online_modes table, the say_blocks
\* table, the outbound calls it made, and the branch it took.
Result(om, sb, out, res) == [om |-> om, sb |-> sb, out |-> out, res |-> res]

\* a toggle that switches off whatever mode is on
say_toggle_off_first(mode, user_id, chat_id, args, current_mode) ==
    IF ~can_use_bot(user_id)
    THEN Result(online_modes, say_blocks,
                reply_and_delete(chat_id, "no_access"), "denied")
    ELSE IF is_say_blocked(user_id)
    THEN Result(online_modes, say_blocks,
                reply_and_delete(chat_id, "say_blocked"), "blocked")
    ELSE IF args # <<>> /\ ~is_int(args[1])
    THEN Result(online_modes, say_blocks,
                reply_and_delete(chat_id, "bad_chat_id"), "bad_arg")
    ELSE IF current_mode # NoneStr
    THEN Result(remove_online_mode(user_id), say_blocks,
                reply_and_delete(chat_id, "mode_off")
                  \o log_to_channel("mode_off"), "off")
    ELSE Result(set_online_mode(user_id, mode, chat_id,
                                IF args # <<>> THEN int_of(args[1]) ELSE None),
                say_blocks,
                reply_and_delete(chat_id, "mode_on_expires_5_min")
                  \o log_to_channel("mode_on"), "on")

\* The one body of sayon_command and sayson_command: they differ in the mode
\* they write and in their copy.  args is context.args; current_mode is what
\* db.get_online_mode(user_id) returned.
say_toggle_at(mode, user_id, chat_id, args, current_mode) ==
    IF ~can_use_bot(user_id)
    THEN Result(online_modes, say_blocks,
                reply_and_delete(chat_id, "no_access"), "denied")
    ELSE IF is_say_blocked(user_id)
    THEN Result(online_modes, say_blocks,
                reply_and_delete(chat_id, "say_blocked"), "blocked")
    ELSE IF args # <<>> /\ ~is_int(args[1])
    THEN Result(online_modes, say_blocks,
                reply_and_delete(chat_id, "bad_chat_id"), "bad_arg")
    ELSE LET target_chat_id == IF args # <<>> THEN int_of(args[1]) ELSE None
         IN  IF current_mode = mode
             THEN Result(remove_online_mode(user_id), say_blocks,
                         reply_and_delete(chat_id, "mode_off")
                           \o log_to_channel("mode_off"), "off")
             ELSE Result(set_online_mode(user_id, mode, chat_id, target_chat_id),
                         say_blocks,
                         reply_and_delete(chat_id, "mode_on_expires_5_min")
                           \o log_to_channel("mode_on"), "on")

\* a toggle that reads an argument that is no integer as no argument
say_toggle_lenient(mode, user_id, chat_id, args) ==
    say_toggle_at(mode, user_id, chat_id,
                  IF args # <<>> /\ ~is_int(args[1]) THEN <<>> ELSE args,
                  get_online_mode(user_id))

say_toggle(mode, user_id, chat_id, args) ==
    say_toggle_at(mode, user_id, chat_id, args, get_online_mode(user_id))

sayon_command(user_id, chat_id, args) ==
    say_toggle("sayon", user_id, chat_id, args)

sayson_command(user_id, chat_id, args) ==
    say_toggle("sayson", user_id, chat_id, args)

sayoff_command(user_id, chat_id) ==
    IF ~can_use_bot(user_id)
    THEN Result(online_modes, say_blocks,
                reply_and_delete(chat_id, "no_access"), "denied")
    ELSE IF get_online_mode(user_id) = NoneStr
    THEN Result(online_modes, say_blocks,
                reply_and_delete(chat_id, "mode_not_on"), "not_on")
    ELSE Result(remove_online_mode(user_id), say_blocks,
                reply_and_delete(chat_id, "mode_off")
                  \o log_to_channel("mode_off"), "off")

sayoffall_command(user_id, chat_id) ==
    IF ~can_ban_mute(user_id)
    THEN Result(online_modes, say_blocks,
                reply_and_delete(chat_id, "owner_head_admin_only"), "denied")
    ELSE IF get_all_online_modes = {}
    THEN Result(online_modes, say_blocks,
                reply_and_delete(chat_id, "no_active_modes"), "none_active")
    ELSE Result(clear_all_online_modes, say_blocks,
                reply_and_delete(chat_id, "modes_off_for_all")
                  \o log_to_channel("sayoffall"), "cleared")

\* sayb_command: block a user from sayon/sayson.  The session of the blocked
\* user is left as it is.
sayb_command(user_id, chat_id, args) ==
    IF ~can_manage_gnomes(user_id)
    THEN Result(online_modes, say_blocks,
                reply_and_delete(chat_id, "no_rights"), "denied")
    ELSE IF args = <<>>
    THEN Result(online_modes, say_blocks,
                reply_and_delete(chat_id, "give_user_id"), "no_arg")
    ELSE IF ~is_int(args[1])
    THEN Result(online_modes, say_blocks,
                reply_and_delete(chat_id, "bad_id"), "bad_arg")
    ELSE LET target_id == int_of(args[1])
         IN  IF is_owner(target_id) /\ ~is_owner(user_id)
             THEN Result(online_modes, say_blocks,
                         reply_and_delete(chat_id, "cannot_block_owner"), "denied")
             ELSE IF is_head_admin(target_id) /\ ~is_owner(user_id)
             THEN Result(online_modes, say_blocks,
                         reply_and_delete(chat_id, "owner_only"), "denied")
             ELSE Result(online_modes, say_blocks \cup {target_id},
                         reply_and_delete(chat_id, "blocked"), "blocked_user")

sayu_command(user_id, chat_id, args) ==
    IF ~can_manage_gnomes(user_id)
    THEN Result(online_modes, say_blocks,
                reply_and_delete(chat_id, "no_rights"), "denied")
    ELSE IF args = <<>>
    THEN Result(online_modes, say_blocks,
                reply_and_delete(chat_id, "give_user_id"), "no_arg")
    ELSE IF ~is_int(args[1])
    THEN Result(online_modes, say_blocks,
                reply_and_delete(chat_id, "bad_id"), "bad_arg")
    ELSE Result(online_modes, say_blocks \ {int_of(args[1])},
                reply_and_delete(chat_id, "unblocked"), "unblocked_user")

\* The names setup_handlers puts into COMMAND_HANDLERS:
\*   start help help_g help_m allcmd add_gnome remove_gnome add_main_admin
\*   remove_main_admin ban_s ban_t unban_s unban_t mute_s mute_t unmute_s
\*   unmute_t kick nah say says sayon sayson sayoff
\*   sayoffall saypin save_s online_list sayb sayu alarm broadcast
\*   hto note notes delnote marry unmarry marriages reminder
\*   reminde birthdays addb delb setbgif setbtext previewb adminchat
\*   userchat logchannel testchannel santas deltimer restart quit add_secondary_chat
\*   profile profile_set myname mym mymt del_myname del_mym del_mymt
\*   giveperm giveperm_simple removeperm custom_main set_cmd del_cmd doubler set_personal
\*   set_cmdm del_personal set_adminm del_adminm role_cmd admin_list rezerv posada
\*   logs get_config update_config menu
COMMAND_HANDLERS ==
    {<<115, 116, 97, 114, 116>>, <<104, 101, 108, 112>>, <<104, 101, 108, 112, 95, 103>>,
     <<104, 101, 108, 112, 95, 109>>, <<97, 108, 108, 99, 109, 100>>, <<97, 100, 100, 95, 103, 110, 111, 109, 101>>,
     <<114, 101, 109, 111, 118, 101, 95, 103, 110, 111, 109, 101>>, <<97, 100, 100, 95, 109, 97, 105, 110, 95, 97, 100, 109, 105, 110>>, <<114, 101, 109, 111, 118, 101, 95, 109, 97, 105, 110, 95, 97, 100, 109, 105, 110>>,
     <<98, 97, 110, 95, 115>>, <<98, 97, 110, 95, 116>>, <<117, 110, 98, 97, 110, 95, 115>>,
     <<117, 110, 98, 97, 110, 95, 116>>, <<109, 117, 116, 101, 95, 115>>, <<109, 117, 116, 101, 95, 116>>,
     <<117, 110, 109, 117, 116, 101, 95, 115>>, <<117, 110, 109, 117, 116, 101, 95, 116>>, <<107, 105, 99, 107>>,
     <<110, 97, 104>>, <<115, 97, 121>>, <<115, 97, 121, 115>>,
     <<115, 97, 121, 111, 110>>, <<115, 97, 121, 115, 111, 110>>, <<115, 97, 121, 111, 102, 102>>,
     <<115, 97, 121, 111, 102, 102, 97, 108, 108>>, <<115, 97, 121, 112, 105, 110>>, <<115, 97, 118, 101, 95, 115>>,
     <<111, 110, 108, 105, 110, 101, 95, 108, 105, 115, 116>>, <<115, 97, 121, 98>>, <<115, 97, 121, 117>>,
     <<97, 108, 97, 114, 109>>, <<98, 114, 111, 97, 100, 99, 97, 115, 116>>, <<104, 116, 111>>,
     <<110, 111, 116, 101>>, <<110, 111, 116, 101, 115>>, <<100, 101, 108, 110, 111, 116, 101>>,
     <<109, 97, 114, 114, 121>>, <<117, 110, 109, 97, 114, 114, 121>>, <<109, 97, 114, 114, 105, 97, 103, 101, 115>>,
     <<114, 101, 109, 105, 110, 100, 101, 114>>, <<114, 101, 109, 105, 110, 100, 101>>, <<98, 105, 114, 116, 104, 100, 97, 121, 115>>,
     <<97, 100, 100, 98>>, <<100, 101, 108, 98>>, <<115, 101, 116, 98, 103, 105, 102>>,
     <<115, 101, 116, 98, 116, 101, 120, 116>>, <<112, 114, 101, 118, 105, 101, 119, 98>>, <<97, 100, 109, 105, 110, 99, 104, 97, 116>>,
     <<117, 115, 101, 114, 99, 104, 97, 116>>, <<108, 111, 103, 99, 104, 97, 110, 110, 101, 108>>, <<116, 101, 115, 116, 99, 104, 97, 110, 110, 101, 108>>,
     <<115, 97, 110, 116, 97, 115>>, <<100, 101, 108, 116, 105, 109, 101, 114>>, <<114, 101, 115, 116, 97, 114, 116>>,
     <<113, 117, 105, 116>>, <<97, 100, 100, 95, 115, 101, 99, 111, 110, 100, 97, 114, 121, 95, 99, 104, 97, 116>>, <<112, 114, 111, 102, 105, 108, 101>>,
     <<112, 114, 111, 102, 105, 108, 101, 95, 115, 101, 116>>, <<109, 121, 110, 97, 109, 101>>, <<109, 121, 109>>,
     <<109, 121, 109, 116>>, <<100, 101, 108, 95, 109, 121, 110, 97, 109, 101>>, <<100, 101, 108, 95, 109, 121, 109>>,
     <<100, 101, 108, 95, 109, 121, 109, 116>>, <<103, 105, 118, 101, 112, 101, 114, 109>>, <<103, 105, 118, 101, 112, 101, 114, 109, 95, 115, 105, 109, 112, 108, 101>>,
     <<114, 101, 109, 111, 118, 101, 112, 101, 114, 109>>, <<99, 117, 115, 116, 111, 109, 95, 109, 97, 105, 110>>, <<115, 101, 116, 95, 99, 109, 100>>,
     <<100, 101, 108, 95, 99, 109, 100>>, <<100, 111, 117, 98, 108, 101, 114>>, <<115, 101, 116, 95, 112, 101, 114, 115, 111, 110, 97, 108>>,
     <<115, 101, 116, 95, 99, 109, 100, 109>>, <<100, 101, 108, 95, 112, 101, 114, 115, 111, 110, 97, 108>>, <<115, 101, 116, 95, 97, 100, 109, 105, 110, 109>>,
     <<100, 101, 108, 95, 97, 100, 109, 105, 110, 109>>, <<114, 111, 108, 101, 95, 99, 109, 100>>, <<97, 100, 109, 105, 110, 95, 108, 105, 115, 116>>,
     <<114, 101, 122, 101, 114, 118>>, <<112, 111, 115, 97, 100, 97>>, <<108, 111, 103, 115>>,
     <<103, 101, 116, 95, 99, 111, 110, 102, 105, 103>>, <<117, 112, 100, 97, 116, 101, 95, 99, 111, 110, 102, 105, 103>>, <<109, 101, 110, 117>>}

cmd_sayon == <<115, 97, 121, 111, 110>>
cmd_sayson == <<115, 97, 121, 115, 111, 110>>
cmd_sayoff == <<115, 97, 121, 111, 102, 102>>
cmd_sayoffall == <<115, 97, 121, 111, 102, 102, 97, 108, 108>>
cmd_sayb == <<115, 97, 121, 98>>
cmd_sayu == <<115, 97, 121, 117>>

\* await COMMAND_HANDLERS[cmd](update, context): the session commands act on
\* the session tables; every other canonical command is a collaborator whose
\* invocation (name and context.args) is all that is recorded.
call_handler(cmd, user_id, chat_id, args) ==
    CASE cmd = cmd_sayon -> sayon_command(user_id, chat_id, args)
      [] cmd = cmd_sayson -> sayson_command(user_id, chat_id, args)
      [] cmd = cmd_sayoff -> sayoff_command(user_id, chat_id)
      [] cmd = cmd_sayoffall -> sayoffall_command(user_id, chat_id)
      [] cmd = cmd_sayb -> sayb_command(user_id, chat_id, args)
      [] cmd = cmd_sayu -> sayu_command(user_id, chat_id, args)
      [] OTHER -> Result(online_modes, say_blocks, <<>>, "external")

----------------------------------------------------------------------------
(* String constants of handle_text_commands (Cyrillic copy is spelled in    *)
(* Latin letters in the comments)                                          *)

\* "davai prava", "dai adminku", "dai vse prava", "davai adminku"
PHRASES_GIVEPERM ==
    {<<1076, 1072, 1074, 1072, 1081, 32, 1087, 1088, 1072, 1074, 1072>>,
     <<1076, 1072, 1081, 32, 1072, 1076, 1084, 1110, 1085, 1082, 1091>>,
     <<1076, 1072, 1081, 32, 1074, 1089, 1077, 32, 1087, 1088, 1072, 1074, 1072>>,
     <<1076, 1072, 1074, 1072, 1081, 32, 1072, 1076, 1084, 1110, 1085, 1082, 1091>>}

\* "daty zvychainu adminu", "daty zvychainu adminku", "daty adminku zvychainu", "dai zvychainu adminku", "zvychaina adminka", "obichnaya adminka"
PHRASES_GIVEPERM_SIMPLE ==
    {<<1076, 1072, 1090, 1080, 32, 1079, 1074, 1080, 1095, 1072, 1081, 1085, 1091, 32, 1072, 1076, 1084, 1110, 1085, 1091>>,
     <<1076, 1072, 1090, 1080, 32, 1079, 1074, 1080, 1095, 1072, 1081, 1085, 1091, 32, 1072, 1076, 1084, 1110, 1085, 1082, 1091>>,
     <<1076, 1072, 1090, 1080, 32, 1072, 1076, 1084, 1110, 1085, 1082, 1091, 32, 1079, 1074, 1080, 1095, 1072, 1081, 1085, 1091>>,
     <<1076, 1072, 1081, 32, 1079, 1074, 1080, 1095, 1072, 1081, 1085, 1091, 32, 1072, 1076, 1084, 1110, 1085, 1082, 1091>>,
     <<1079, 1074, 1080, 1095, 1072, 1081, 1085, 1072, 32, 1072, 1076, 1084, 1110, 1085, 1082, 1072>>,
     <<1086, 1073, 1080, 1095, 1085, 1072, 1103, 32, 1072, 1076, 1084, 1080, 1085, 1082, 1072>>}

\* "zabraty prava", "zniaty adminku"
PHRASES_REMOVEPERM ==
    {<<1079, 1072, 1073, 1088, 1072, 1090, 1080, 32, 1087, 1088, 1072, 1074, 1072>>,
     <<1079, 1085, 1103, 1090, 1080, 32, 1072, 1076, 1084, 1110, 1085, 1082, 1091>>}

\* "shliuby", "spysok shliubiv"
PHRASES_MARRIAGES ==
    {<<1096, 1083, 1102, 1073, 1080>>,
     <<1089, 1087, 1080, 1089, 1086, 1082, 32, 1096, 1083, 1102, 1073, 1110, 1074>>}

\* "administratory (uk)", "administratory (ru)", "adminy"
PHRASES_ADMIN_LIST ==
    {<<1072, 1076, 1084, 1110, 1085, 1110, 1089, 1090, 1088, 1072, 1090, 1086, 1088, 1080>>,
     <<1072, 1076, 1084, 1080, 1085, 1080, 1089, 1090, 1088, 1072, 1090, 1086, 1088, 1099>>,
     <<1072, 1076, 1084, 1110, 1085, 1080>>}

PHRASE_MARRY == <<1086, 1076, 1088, 1091, 1078, 1080, 1090, 1080>>   \* "odruzhyty"

PHRASE_UNMARRY_REPLY == <<1088, 1086, 1079, 1083, 1091, 1095, 1080, 1090, 1080, 32, 1091, 32, 1074, 1110, 1076, 1087, 1086, 1074, 1110, 1076, 1100>>   \* "rozluchyty u vidpovid"

PHRASE_UNMARRY == <<1088, 1086, 1079, 1083, 1091, 1095, 1080, 1090, 1080>>   \* "rozluchyty"

PHRASE_UNMARRY_SHORT == <<1088, 1086, 1079, 1083, 1091, 1095, 1080>>   \* "rozluchy"

PHRASE_MARRIAGE_PHOTO == <<1092, 1086, 1090, 1086, 32, 1096, 1083, 1102, 1073, 1091>>   \* "foto shliubu"

PHRASE_MY_MARRIAGE == <<1084, 1110, 1081, 32, 1096, 1083, 1102, 1073>>   \* "mii shliub"

KOD_LABEL == <<1082, 1086, 1076, 58>>   \* "kod:"

PLACEHOLDER_S1 == <<64, 115, 49>>   \* "@s1"

PLACEHOLDER_S2 == <<64, 115, 50>>   \* "@s2"

PLACEHOLDER_T == <<64, 116>>   \* "@t"

UNKNOWN_NAME == <<1053, 1077, 1074, 1110, 1076, 1086, 1084, 1080, 1081>>   \* "Nevidomyi"

ANCHOR_OPEN == <<60, 97, 32, 104, 114, 101, 102, 61, 39, 116, 103, 58, 47, 47, 117, 115, 101, 114, 63, 105, 100, 61>>   \* "<a href='tg://user?id="

ANCHOR_MID == <<39, 62>>   \* "'>"

ANCHOR_CLOSE == <<60, 47, 97, 62>>   \* "</a>"

SIGNATURE_LEAD == <<10, 10, 8212, 32>>   \* "\n\n-- "

----------------------------------------------------------------------------
(* Database: users, custom_names, personal_commands, media, aliases        *)

\* SQLite LOWER(): ASCII letters only
sql_lower(s) ==
    [i \in 1..Len(s) |-> IF s[i] >= 65 /\ s[i] <= 90 THEN s[i] + 32 ELSE s[i]]

\* SQLite  x LIKE '%p%': p occurs in x, ASCII case-insensitive, '_' in p
\* matching any one character
sql_like_contains(x, p) ==
    \E i \in 1..(Len(x) - Len(p) + 1) :
        \A k \in 1..Len(p) :
            p[k] = 95 \/ sql_lower(<<x[i + k - 1]>>) = sql_lower(<<p[k]>>)

\* cursor.fetchone() of a SELECT without ORDER BY on a table keyed by an
\* INTEGER PRIMARY KEY: the scan runs in rowid order
fetchone_by_user_id(rows) ==
    IF rows = {} THEN {}
    ELSE {CHOOSE r \in rows : \A q \in rows : r.user_id <= q.user_id}

\* Database.get_user_by_username: exact, then with '@', then LIKE '%..%'
get_user_by_username(name) ==
    LET named == {r \in users : r.username # <<>>}
        exact == {r \in named : sql_lower(r.username) = sql_lower(name)}
        at    == {r \in named : sql_lower(r.username) = sql_lower(<<64>> \o name)}
        part  == {r \in named : sql_like_contains(r.username, name)}
    IN  IF exact # {} THEN fetchone_by_user_id(exact)
        ELSE IF at # {} THEN fetchone_by_user_id(at)
        ELSE fetchone_by_user_id(part)

\* Database.get_custom_name
get_custom_name(user_id) ==
    IF user_id \in DOMAIN custom_names THEN custom_names[user_id] ELSE <<>>

\* get_display_name(user_id, default_name)
get_display_name(user_id, default_name) ==
    IF get_custom_name(user_id) # <<>> THEN get_custom_name(user_id)
    ELSE IF default_name # <<>> THEN default_name
    ELSE UNKNOWN_NAME

\* a < b in the order of ORDER BY command_name (code point by code point)
RECURSIVE lex_less(_, _)
lex_less(a, b) ==
    IF b = <<>> THEN FALSE
    ELSE IF a = <<>> THEN TRUE
    ELSE IF a[1] # b[1] THEN a[1] < b[1]
    ELSE lex_less(Tail(a), Tail(b))

\* Database.get_all_personal_commands: ... WHERE chat_id = ? ORDER BY command_name
RECURSIVE order_by_command_name(_)
order_by_command_name(rows) ==
    IF rows = {} THEN <<>>
    ELSE LET r == CHOOSE x \in rows :
                    \A y \in rows \ {x} : lex_less(x.command_name, y.command_name)
         IN  <<r>> \o order_by_command_name(rows \ {r})

get_all_personal_commands(chat_id) ==
    order_by_command_name({c \in personal_commands : c.chat_id = chat_id})

\* list.sort(key=lambda x: len(x['name'].split()), reverse=True): stable, so
\* commands of equal word count keep the order they had
RECURSIVE sort_by_words_desc(_)
sort_by_words_desc(cmds) ==
    IF cmds = <<>> THEN <<>>
    ELSE LET most == CHOOSE i \in 1..Len(cmds) :
                       /\ \A j \in 1..Len(cmds) :
                            Len(split(cmds[j].command_name))
                              <= Len(split(cmds[i].command_name))
                       /\ \A j \in 1..(i - 1) :
                            Len(split(cmds[j].command_name))
                              < Len(split(cmds[i].command_name))
         IN  <<cmds[most]>>
             \o sort_by_words_desc(
                  [k \in 1..(Len(cmds) - 1) |->
                      IF k < most THEN cmds[k] ELSE cmds[k + 1]])

\* Database.get_personal_command_media: ... ORDER BY created_at
RECURSIVE order_by_created_at(_)
order_by_created_at(rows) ==
    IF rows = {} THEN <<>>
    ELSE LET r == CHOOSE x \in rows :
                    \A y \in rows \ {x} :
                        \/ x.created_at < y.created_at
                        \/ (x.created_at = y.created_at /\ x.id < y.id)
         IN  <<r>> \o order_by_created_at(rows \ {r})

get_personal_command_media(command_id) ==
    order_by_created_at({m \in personal_command_media : m.command_id = command_id})

\* Database.get_command_alias: the target of the row with this chat and
\* alias_name.lower(), None without one
get_command_alias(chat_id, alias_name) ==
    LET hit == {a \in command_aliases :
                  a.chat_id = chat_id /\ a.alias_name = lower(alias_name)}
    IN  IF hit = {} THEN <<>> ELSE (CHOOSE a \in hit : TRUE).target_command

\* the tables the commands on personal commands and aliases write
Tables(pc, media, ca, seq) == [pc |-> pc, media |-> media, ca |-> ca, seq |-> seq]

\* personal_command_media.command_id ... REFERENCES personal_commands(id) ON
\* DELETE CASCADE: the media rows left when the commands gone are deleted.
\* SQLite acts on the clause only on a connection that enforces foreign keys.
on_delete_cascade(media, gone) ==
    IF foreign_keys
    THEN {m \in media : m.command_id \notin {c.id : c \in gone}}
    ELSE media

\* Database.get_personal_command: the row of this chat and command_name.lower()
get_personal_command(chat_id, command_name) ==
    {c \in personal_commands :
        c.chat_id = chat_id /\ c.command_name = lower(command_name)}

\* Database.add_personal_command: INSERT OR REPLACE under UNIQUE(chat_id,
\* command_name); the row replaced is deleted, the new row takes the next
\* AUTOINCREMENT id
add_personal_command(chat_id, command_name, template_text) ==
    Tables((personal_commands \ get_personal_command(chat_id, command_name))
             \cup {[id |-> sqlite_sequence.personal_commands + 1,
                    chat_id |-> chat_id,
                    command_name |-> lower(command_name),
                    template_text |-> template_text]},
           on_delete_cascade(personal_command_media,
                             get_personal_command(chat_id, command_name)),
           command_aliases,
           [sqlite_sequence EXCEPT
              !.personal_commands = sqlite_sequence.personal_commands + 1])

\* Database.delete_personal_command: DELETE FROM personal_commands WHERE
\* chat_id = ? AND command_name = ?
delete_personal_command(chat_id, command_name) ==
    Tables(personal_commands \ get_personal_command(chat_id, command_name),
           on_delete_cascade(personal_command_media,
                             get_personal_command(chat_id, command_name)),
           command_aliases, sqlite_sequence)

\* an insert that replaces the rows of the command with the same file
replace_personal_command_media(command_id, media_type, file_id) ==
    Tables(personal_commands,
           {m \in personal_command_media :
              ~(m.command_id = command_id /\ m.file_id = file_id)}
             \cup {[id |-> sqlite_sequence.personal_command_media + 1,
                    command_id |-> command_id, type |-> media_type,
                    file_id |-> file_id, created_at |-> now]},
           command_aliases,
           [sqlite_sequence EXCEPT
              !.personal_command_media =
                 sqlite_sequence.personal_command_media + 1])
\* Database.add_personal_command_media: INSERT of one more row
add_personal_command_media(command_id, media_type, file_id) ==
    Tables(personal_commands,
           personal_command_media
             \cup {[id |-> sqlite_sequence.personal_command_media + 1,
                    command_id |-> command_id, type |-> media_type,
                    file_id |-> file_id, created_at |-> now]},
           command_aliases,
           [sqlite_sequence EXCEPT
              !.personal_command_media =
                 sqlite_sequence.personal_command_media + 1])

\* Database.delete_personal_command_media: DELETE FROM
\* personal_command_media WHERE id = ?
delete_personal_command_media(media_id) ==
    Tables(personal_commands,
           {m \in personal_command_media : m.id # media_id},
           command_aliases, sqlite_sequence)
\* Database.delete_command_alias: DELETE FROM command_aliases WHERE
\* chat_id = ? AND alias_name = ? (alias_name.lower())
delete_command_alias(chat_id, alias_name) ==
    Tables(personal_commands, personal_command_media,
           {a \in command_aliases :
              ~(a.chat_id = chat_id /\ a.alias_name = lower(alias_name))},
           sqlite_sequence)
\* an INSERT that keeps the row of the same chat and alias
insert_alias(chat_id, alias_name, target_command) ==
    Tables(personal_commands, personal_command_media,
           command_aliases
             \cup {[chat_id |-> chat_id, alias_name |-> lower(alias_name),
                    target_command |-> target_command]},
           sqlite_sequence)

\* Database.add_command_alias: INSERT OR REPLACE under UNIQUE(chat_id,
\* alias_name), the name in lower case
add_command_alias(chat_id, alias_name, target_command) ==
    Tables(personal_commands, personal_command_media,
           {a \in command_aliases :
               ~(a.chat_id = chat_id /\ a.alias_name = lower(alias_name))}
             \cup {[chat_id |-> chat_id, alias_name |-> lower(alias_name),
                    target_command |-> target_command]},
           sqlite_sequence)
\* The accounts context.bot.get_chat("@name") finds (Telegram's directory):
\* user 5, @carol_x, first name "Carol"
TelegramDirectory ==
    {[id |-> 5, username |-> <<99, 97, 114, 111, 108, 95, 120>>,
      first_name |-> <<67, 97, 114, 111, 108>>]}

\* context.bot.get_chat(f"@{name}"): the account, or an exception (no row)
bot_get_chat(name) ==
    {a \in TelegramDirectory : lower(a.username) = lower(name)}

----------------------------------------------------------------------------
(* handle_text_commands (bot.py)                                           *)

\* [a-zA-Z0-9_]
IsWordChar(c) ==
    \/ c >= 48 /\ c <= 57
    \/ c >= 65 /\ c <= 90
    \/ c >= 97 /\ c <= 122
    \/ c = 95

\* [A-F0-9] on upper-cased text
IsHexUpper(c) == (c >= 48 /\ c <= 57) \/ (c >= 65 /\ c <= 70)

\* re.search(r'@([a-zA-Z0-9_]{5,32})', s): group(1) of the leftmost match,
\* <<>> without a match
username_search(s) ==
    LET at == {i \in 1..Len(s) :
                 /\ s[i] = 64
                 /\ i + 5 <= Len(s)
                 /\ \A k \in 1..5 : IsWordChar(s[i + k])}
    IN  IF at = {} THEN <<>>
        ELSE LET i == CHOOSE x \in at : \A y \in at : x <= y
                 n == CHOOSE m \in 5..32 :
                        /\ i + m <= Len(s)
                        /\ \A k \in 1..m : IsWordChar(s[i + k])
                        /\ (m = 32 \/ i + m = Len(s) \/ ~IsWordChar(s[i + m + 1]))
             IN  SubSeq(s, i + 1, i + n)

\* the first index from j on that holds no whitespace (\s* is greedy, and
\* a hexadecimal digit is no whitespace)
RECURSIVE skip_space(_, _)
skip_space(u, j) ==
    IF j <= Len(u) /\ IsSpace(u[j]) THEN skip_space(u, j + 1) ELSE j

\* [A-F0-9]{12} at index j of u
hex_run(u, j) == j + 11 <= Len(u) /\ \A k \in 0..11 : IsHexUpper(u[j + k])

\* group(1) of the leftmost match of  label \s* ([A-F0-9]{12})  in u
code_in(u, label) ==
    LET hits == {i \in 1..(Len(u) - Len(label) + 1) :
                   /\ SubSeq(u, i, i + Len(label) - 1) = label
                   /\ hex_run(u, skip_space(u, i + Len(label)))}
    IN  IF hits = {} THEN <<>>
        ELSE LET i == CHOOSE x \in hits : \A y \in hits : x <= y
                 j == skip_space(u, i + Len(label))
             IN  SubSeq(u, j, j + 11)

\* re.search(r'kod:\s*([A-F0-9]{12})', text.upper(), re.IGNORECASE):
\* group(1) of the leftmost match, <<>> without a match
code_search(text) == code_in(upper(text), upper(KOD_LABEL))

\* a match that takes no text for a bare code
no_bare_code(text) == FALSE

\* re.match(r'^[A-F0-9]{12}$', text.upper())
is_bare_code(text) ==
    Len(text) = 12 /\ \A k \in 1..12 : IsHexUpper(upper(text)[k])

\* f"<a href='tg://user?id={user_id}'>{name}</a>"
clickable(user_id, name) ==
    ANCHOR_OPEN \o str_of_int(user_id) \o ANCHOR_MID \o name \o ANCHOR_CLOSE

\* str.lstrip('/')
RECURSIVE lstrip_slash(_)
lstrip_slash(s) ==
    IF s # <<>> /\ s[1] = 47 THEN lstrip_slash(Tail(s)) ELSE s

\* What handle_text_commands leaves behind.
\*   stages: the stages control reached ("template" the lookup of the
\*     personal commands, "gate" the administrator check, "session" the mode
\*     lookup, "phrase", "restore", "alias"); end: the stage that returned
\*   matched: a personal command's name is a prefix of the text
\*   target_id: the secondary participant, None when unresolved
\*   forwarded: the auto-forward branch sent the message
\*   called: the Python function invoked; cmd, args: the alias's command
\*     and context.args
Outcome(r, stages, end, matched, target_id, forwarded, called, cmd, args) ==
    [om |-> r.om, sb |-> r.sb, out |-> r.out, res |-> r.res,
     stages |-> stages, end |-> end, matched |-> matched,
     target_id |-> target_id, forwarded |-> forwarded,
     called |-> called, cmd |-> cmd, args |-> args]

Untouched(out, res) == Result(online_modes, say_blocks, out, res)

\* Lines 6463-6468: the first of all_commands whose name is a prefix of the
\* text (text.lower()); {} without one
first_prefix(all_commands, text) ==
    LET hits == {i \in 1..Len(all_commands) :
                   startswith(text, lower(all_commands[i].command_name))}
    IN  IF hits = {} THEN {}
        ELSE {all_commands[CHOOSE i \in hits : \A j \in hits : i <= j]}

\* a selection that takes the commands in the order of the query
first_in_name_order(chat_id, text) ==
    first_prefix(get_all_personal_commands(chat_id), lower(text))

\* Lines 6456-6468: the personal command whose name is a prefix of the text,
\* the commands with more words first
find_personal_command(chat_id, text) ==
    first_prefix(sort_by_words_desc(get_all_personal_commands(chat_id)),
                 lower(text))

\* [target_id, target_name, extra]: the secondary participant and the text
\* that replaces @t
Target(target_id, target_name, extra) ==
    [target_id |-> target_id, target_name |-> target_name, extra |-> extra]

\* Lines 6511-6517: without a participant so far, the author of the message
\* replied to
reply_target(extra_text, reply_to) ==
    IF reply_to # None
    THEN Target(reply_to, get_display_name(reply_to, full_name(reply_to)),
                extra_text)
    ELSE Target(None, <<>>, extra_text)

\* Lines 6499-6509: the handle is looked up with get_chat
tg_target(tg_user, found_username, extra_text, reply_to) ==
    IF tg_user # {}
    THEN LET a == CHOOSE r \in tg_user : TRUE
         IN  Target(a.id, get_display_name(a.id, a.first_name),
                    strip(replace(extra_text, <<64>> \o found_username, <<>>)))
    ELSE reply_target(extra_text, reply_to)

\* a lookup that leaves the handle in the text that replaces @t
keep_handle(db_user, found_username, extra_text, reply_to) ==
    IF db_user # {}
    THEN LET u == CHOOSE r \in db_user : TRUE
         IN  Target(u.user_id, get_display_name(u.user_id, u.full_name),
                    extra_text)
    ELSE tg_target(bot_get_chat(found_username), found_username, extra_text,
                   reply_to)

\* Lines 6488-6497: the handle is looked up in the users table
db_target(db_user, found_username, extra_text, reply_to) ==
    IF db_user # {}
    THEN LET u == CHOOSE r \in db_user : TRUE
         IN  Target(u.user_id, get_display_name(u.user_id, u.full_name),
                    strip(replace(extra_text, <<64>> \o found_username, <<>>)))
    ELSE tg_target(bot_get_chat(found_username), found_username, extra_text,
                   reply_to)

\* a resolution that takes the author of the message replied to first
reply_first(found_username, extra_text, reply_to) ==
    IF reply_to # None \/ found_username = <<>>
    THEN reply_target(extra_text, reply_to)
    ELSE db_target(get_user_by_username(found_username), found_username,
                   extra_text, reply_to)
\* Lines 6481-6509: a handle in the remainder
handle_target(found_username, extra_text, reply_to) ==
    IF found_username = <<>> THEN reply_target(extra_text, reply_to)
    ELSE db_target(get_user_by_username(found_username), found_username,
                   extra_text, reply_to)

\* Lines 6476-6517: the secondary participant of a matched personal command.
\* A handle in the remainder is looked up in the users table, then with
\* get_chat; without a hit the author of the replied-to message is taken.
resolve_target(extra_text, reply_to) ==
    handle_target(username_search(extra_text), extra_text, reply_to)

\* Lines 6521-6541: the media of the pool drawn by random.choice (pick)
\* carries the rendered text; without a pool the text goes out alone
send_with(media_list, chat_id, result_text, pick) ==
    IF media_list = <<>>
    THEN <<Msg("reply", chat_id, result_text, "rendered")>>
    ELSE LET selected_media == media_list[((pick - 1) % Len(media_list)) + 1]
         IN  IF selected_media.type \in {"photo", "animation", "video"}
             THEN <<Msg(selected_media.type, chat_id, result_text,
                        selected_media.file_id)>>
             ELSE IF selected_media.type = "sticker"
             THEN <<Msg("sticker", chat_id, <<>>, selected_media.file_id),
                    Msg("reply", chat_id, result_text, "rendered")>>
             ELSE <<>>

send_rendered(chat_id, command_id, result_text, pick) ==
    send_with(get_personal_command_media(command_id), chat_id, result_text, pick)

\* [matched, done, target_id, out] of the template stage.  done: the stage
\* sent the rendered command and returned.
Stage(matched, done, target_id, out) ==
    [matched |-> matched, done |-> done, target_id |-> target_id, out |-> out]

\* Lines 6519-6543: with a participant t the template is rendered and sent,
\* and the handler returns; without one nothing is sent
render_command(cmd_info, t, user_id, chat_id, pick) ==
    IF t.target_id # None
    THEN Stage(TRUE, TRUE, t.target_id,
             send_rendered(chat_id, cmd_info.id,
                 replace(replace(replace(cmd_info.template_text,
                             PLACEHOLDER_S1,
                             clickable(user_id,
                                 get_display_name(user_id, full_name(user_id)))),
                         PLACEHOLDER_S2, clickable(t.target_id, t.target_name)),
                     PLACEHOLDER_T, t.extra),
                 pick))
    ELSE Stage(TRUE, FALSE, None, <<>>)

\* Lines 6470-6543: cmd is the personal command found, {} without one
run_command(cmd, user_id, chat_id, text, reply_to, pick) ==
    IF cmd = {} THEN Stage(FALSE, FALSE, None, <<>>)
    ELSE LET cmd_info == CHOOSE c \in cmd : TRUE
         IN  render_command(cmd_info,
                 resolve_target(
                     strip(SubStr(text, Len(cmd_info.command_name) + 1,
                                  Len(text))),
                     reply_to),
                 user_id, chat_id, pick)

\* Lines 6456-6543
template_stage(user_id, chat_id, text, reply_to, pick) ==
    run_command(find_personal_command(chat_id, text), user_id, chat_id, text,
                reply_to, pick)

\* a body that never carries a signature
unsigned_body(mode, user_id, msg_text) == sanitize_message_text(msg_text)

\* Lines 6576-6621: the body sent for the sender's mode
forward_body(mode, user_id, msg_text) ==
    IF mode = "sayon"
    THEN LET author_name == safe_send_message(
                                IF full_name(user_id) # <<>>
                                THEN full_name(user_id) ELSE UNKNOWN_NAME)
             uname == IF username(user_id) # <<>>
                      THEN <<64>> \o safe_send_message(username(user_id))
                      ELSE <<>>
         IN  sanitize_message_text(msg_text) \o SIGNATURE_LEAD \o author_name
             \o <<32>> \o uname
    ELSE sanitize_message_text(msg_text)

\* a destination that is the default chat whatever the session names
default_chat(target_chat_id) == USER_CHAT_ID

\* Line 6568: forward_to = target_chat_id if target_chat_id else USER_CHAT_ID
forward_chat(target_chat_id) ==
    IF target_chat_id # None THEN target_chat_id ELSE USER_CHAT_ID

\* a check that lets a sender forward from every chat
forward_from_anywhere(user_id, chat_id) == TRUE

\* a check that holds the owner to the source chat too
same_chat_only(user_id, chat_id) == get_online_mode_source(user_id) = chat_id

\* Line 6566: the sender may forward from this chat
may_forward(user_id, chat_id) ==
    is_owner(user_id) \/ get_online_mode_source(user_id) = chat_id

\* Lines 6717-6732: the longest leading run of words that is an alias;
\* 0 without one
alias_word_count(chat_id, text_words) ==
    LET hits == {n \in 1..Len(text_words) :
                   get_command_alias(chat_id, join(SubSeq(text_words, 1, n))) # <<>>}
    IN  IF hits = {} THEN 0 ELSE CHOOSE n \in hits : \A m \in hits : m <= n

\* the Outcome of a stage after the session stage.  pre: what was sent
\* before; st: the stages reached
After(r, pre, st, end, matched, called, cmd, args) ==
    Outcome([r EXCEPT !.out = pre \o r.out], st, end, matched, None, FALSE,
            called, cmd, args)

\* Lines 6717-6742: the first n words are an alias (n = 0: no alias)
alias_stage(n, text_words, user_id, chat_id, pre, st, matched) ==
    IF n > 0
    THEN LET args == SubSeq(text_words, n + 1, Len(text_words))
             cmd == lower(lstrip_slash(
                        get_command_alias(chat_id,
                                          join(SubSeq(text_words, 1, n)))))
         IN  IF cmd \in COMMAND_HANDLERS
             THEN After(call_handler(cmd, user_id, chat_id, args), pre,
                        st \cup {"alias"}, "alias", matched,
                        "COMMAND_HANDLERS", cmd, args)
             ELSE After(Untouched(<<>>, "unknown_command"), pre,
                        st \cup {"alias"}, "alias", matched, NoneStr, cmd, args)
    ELSE After(Untouched(<<>>, "no_match"), pre, st \cup {"alias"}, "none",
               matched, NoneStr, <<>>, <<>>)

\* Lines 6696-6715: code is the backup code after the label, <<>> without
restore_stage(code, user_id, chat_id, text, pre, st, matched) ==
    IF code # <<>> \/ is_bare_code(text)
    THEN IF is_owner(user_id)
         THEN After(Untouched(<<>>, "import"), pre, st, "restore", matched,
                    "process_backup_import", <<>>,
                    <<IF code # <<>> THEN code ELSE upper(text)>>)
         ELSE After(Untouched(reply_and_delete(chat_id, "owner_only_import"),
                              "denied"),
                    pre, st, "restore", matched, NoneStr, <<>>, <<>>)
    ELSE alias_stage(alias_word_count(chat_id, split(text)), split(text),
                     user_id, chat_id, pre, st, matched)

\* Lines 6625-6694: the phrase command the text names and its context.args;
\* <<>> without one
phrase_command(text) ==
    LET after(p) == split(SubStr(text, Len(p) + 1, Len(text)))
    IN  IF text \in PHRASES_GIVEPERM THEN <<"giveperm_command", <<>>>>
        ELSE IF text \in PHRASES_GIVEPERM_SIMPLE
        THEN <<"giveperm_simple_command", <<>>>>
        ELSE IF text \in PHRASES_REMOVEPERM THEN <<"removeperm_command", <<>>>>
        ELSE IF startswith(text, PHRASE_MARRY)
        THEN <<"marry_command", after(PHRASE_MARRY)>>
        ELSE IF text = PHRASE_UNMARRY_REPLY THEN <<"unmarry_command", <<>>>>
        ELSE IF startswith(text, PHRASE_UNMARRY)
        THEN <<"unmarry_command", after(PHRASE_UNMARRY)>>
        ELSE IF startswith(text, PHRASE_UNMARRY_SHORT)
        THEN <<"unmarry_command", after(PHRASE_UNMARRY_SHORT)>>
        ELSE IF text = PHRASE_MARRIAGE_PHOTO
        THEN <<"set_marriage_photo_command", <<>>>>
        ELSE IF text = PHRASE_MY_MARRIAGE THEN <<"my_marriage_command", <<>>>>
        ELSE IF text \in PHRASES_MARRIAGES THEN <<"marriages_command", <<>>>>
        ELSE IF text \in PHRASES_ADMIN_LIST THEN <<"admin_list_command", <<>>>>
        ELSE <<>>

\* a dispatch that resolves aliases before the phrases
alias_before_phrase(ph, user_id, chat_id, text, pre, st, matched) ==
    IF alias_word_count(chat_id, split(text)) > 0
    THEN alias_stage(alias_word_count(chat_id, split(text)), split(text),
                     user_id, chat_id, pre, st, matched)
    ELSE IF ph # <<>>
    THEN After(Untouched(<<>>, "external"), pre, st \cup {"phrase"}, "phrase",
               matched, ph[1], <<>>, ph[2])
    ELSE restore_stage(code_search(text), user_id, chat_id, text, pre,
                       st \cup {"phrase", "restore"}, matched)
\* Lines 6625-6694: ph is phrase_command(text)
phrase_stage(ph, user_id, chat_id, text, pre, st, matched) ==
    IF ph # <<>>
    THEN After(Untouched(<<>>, "external"), pre, st \cup {"phrase"}, "phrase",
               matched, ph[1], <<>>, ph[2])
    ELSE restore_stage(code_search(text), user_id, chat_id, text, pre,
                       st \cup {"phrase", "restore"}, matched)

\* Lines 6625-6742: phrase commands, restore code, aliases, for a sender
\* who passed the administrator check.  st: the stages reached before.
admin_stages(user_id, chat_id, text, pre, st, matched) ==
    phrase_stage(phrase_command(text), user_id, chat_id, text, pre, st, matched)

\* Lines 6555-6623: mode is the sender's mode, forward_to the chat the
\* session forwards to
session_stage(mode, forward_to, user_id, chat_id, msg_text, text, pre, matched) ==
    IF mode # NoneStr /\ may_forward(user_id, chat_id)
    THEN IF forward_to = None
         THEN Outcome(Untouched(pre, "no_forward_chat"),
                      {"template", "gate", "session"}, "session",
                      matched, None, FALSE, NoneStr, <<>>, <<>>)
         ELSE Outcome(
                Result(update_online_activity(user_id), say_blocks,
                       pre \o (IF mode \in {"sayon", "sayson"}
                               THEN <<Msg("send", forward_to,
                                          forward_body(mode, user_id, msg_text),
                                          mode)>>
                               ELSE <<>>),
                       "forwarded"),
                {"template", "gate", "session"}, "session",
                matched, None, mode \in {"sayon", "sayson"},
                NoneStr, <<>>, <<>>)
    ELSE admin_stages(user_id, chat_id, text, pre,
                      {"template", "gate", "session"}, matched)

\* a check that lets every role of the roles table pass
is_admin_any_role(user_id) == can_use_bot(user_id)

\* Lines 6546-6547: is_admin = is_owner(user_id) or role == "head_admin"
is_admin(user_id) == is_owner(user_id) \/ get_role(user_id) = "head_admin"

\* Lines 6545-6623: the administrator check and the auto-forward of a
\* sender in a mode; then the stages above
after_template(user_id, chat_id, msg_text, text, pre, matched) ==
    IF ~is_admin(user_id)
    THEN Outcome(Untouched(pre, "not_admin"), {"template", "gate"}, "gate",
                 matched, None, FALSE, NoneStr, <<>>, <<>>)
    ELSE session_stage(get_online_mode(user_id),
                       forward_chat(get_online_mode_target(user_id)),
                       user_id, chat_id, msg_text, text, pre, matched)

\* Lines 6448-6454: a text that starts with "/" is deleted first
slash_delete(chat_id, text) ==
    IF startswith(text, <<47>>)
    THEN <<Msg("delete", chat_id, <<>>, "command_text")>>
    ELSE <<>>

\* Lines 6456-6742: tpl is what the template stage left
dispatch(tpl, user_id, chat_id, msg_text, text) ==
    IF tpl.done
    THEN Outcome(Untouched(slash_delete(chat_id, text) \o tpl.out, "rendered"),
                 {"template"}, "template", TRUE, tpl.target_id, FALSE,
                 NoneStr, <<>>, <<>>)
    ELSE after_template(user_id, chat_id, msg_text, text,
                        slash_delete(chat_id, text), tpl.matched)

\* Lines 6448-6742: text is the message's text, stripped and in lower case
handle_text(user_id, chat_id, msg_text, text, reply_to, pick) ==
    dispatch(template_stage(user_id, chat_id, text, reply_to, pick),
             user_id, chat_id, msg_text, text)

\* handle_text_commands(update, context) for a text message msg_text of
\* user_id in chat_id, replying to a message of reply_to (None: no reply)
handle_text_commands(user_id, chat_id, msg_text, reply_to, pick) ==
    IF \/ msg_text = <<>>
       \/ (~is_allowed_chat(chat_id) /\ chat_type(chat_id) # "private")
       \/ user_id = None
    THEN Outcome(Untouched(<<>>, "ignored"), {}, "guard", FALSE, None, FALSE,
                 NoneStr, <<>>, <<>>)
    ELSE handle_text(user_id, chat_id, msg_text, lower(strip(msg_text)),
                     reply_to, pick)

----------------------------------------------------------------------------
(* Menu buttons (bot.py)                                                   *)

DATA_MENU_MESSAGES == <<109, 101, 110, 117, 95, 109, 101, 115, 115, 97, 103, 101, 115>> \* "menu_messages"
DATA_SAYON == <<109, 115, 103, 95, 99, 109, 100, 95, 115, 97, 121, 111, 110>> \* "msg_cmd_sayon"
DATA_SAYSON == <<109, 115, 103, 95, 99, 109, 100, 95, 115, 97, 121, 115, 111, 110>> \* "msg_cmd_sayson"
DATA_SAYOFFALL == <<109, 115, 103, 95, 99, 109, 100, 95, 115, 97, 121, 111, 102, 102, 97, 108, 108>> \* "msg_cmd_sayoffall"
PATTERN_MENU == <<109, 101, 110, 117, 95>>   \* "menu_" of pattern "^menu_"

edit_message_text(chat_id, note) == <<Msg("edit", chat_id, <<>>, note)>>

\* The one body of msg_cmd_sayon_callback and msg_cmd_sayson_callback, after
\* await query.answer(); current_mode is what db.get_online_mode returned
msg_cmd_toggle_at(mode, user_id, chat_id, current_mode) ==
    IF ~can_use_bot(user_id)
    THEN Result(online_modes, say_blocks,
                edit_message_text(chat_id, "no_access"), "denied")
    ELSE IF is_say_blocked(user_id)
    THEN Result(online_modes, say_blocks,
                edit_message_text(chat_id, "say_blocked"), "blocked")
    ELSE IF current_mode = mode
    THEN Result(remove_online_mode(user_id), say_blocks,
                edit_message_text(chat_id, "mode_off"), "off")
    ELSE Result(set_online_mode(user_id, mode, chat_id, None), say_blocks,
                edit_message_text(chat_id, "mode_on"), "on")

msg_cmd_sayon_callback(user_id, chat_id) ==
    msg_cmd_toggle_at("sayon", user_id, chat_id, get_online_mode(user_id))

msg_cmd_sayson_callback(user_id, chat_id) ==
    msg_cmd_toggle_at("sayson", user_id, chat_id, get_online_mode(user_id))

msg_cmd_sayoffall_callback(user_id, chat_id) ==
    IF ~can_ban_mute(user_id)
    THEN Result(online_modes, say_blocks,
                edit_message_text(chat_id, "owner_head_admin_only"), "denied")
    ELSE IF get_all_online_modes = {}
    THEN Result(online_modes, say_blocks,
                edit_message_text(chat_id, "no_active_modes"), "none_active")
    ELSE Result(clear_all_online_modes, say_blocks,
                edit_message_text(chat_id, "modes_off_for_all"), "cleared")

\* menu_messages_callback: shows the buttons msg_cmd_sayon, msg_cmd_sayson,
\* msg_cmd_sayoffall
menu_messages_callback(user_id, chat_id) ==
    IF ~can_use_bot(user_id)
    THEN Result(online_modes, say_blocks,
                <<Msg("answer", chat_id, <<>>, "no_access")>>, "denied")
    ELSE Result(online_modes, say_blocks,
                edit_message_text(chat_id, "menu_messages"), "menu_shown")

\* menu_callback_handler: the branch for query.data
menu_callback_handler(data, user_id, chat_id) ==
    CASE data = DATA_MENU_MESSAGES -> menu_messages_callback(user_id, chat_id)
      [] data = DATA_SAYON -> msg_cmd_sayon_callback(user_id, chat_id)
      [] data = DATA_SAYSON -> msg_cmd_sayson_callback(user_id, chat_id)
      [] data = DATA_SAYOFFALL -> msg_cmd_sayoffall_callback(user_id, chat_id)
      [] OTHER -> Result(online_modes, say_blocks,
                         <<Msg("answer", chat_id, <<>>, "unknown_command")>>,
                         "unknown")

\* The CallbackQueryHandler that setup_handlers registers for the menu:
\* CallbackQueryHandler(menu_callback_handler, pattern="^menu_").  The
\* handler runs when re.match(pattern, data) succeeds; a callback query no
\* registered pattern matches is dropped.
callback_dispatch(data, user_id, chat_id) ==
    IF startswith(data, PATTERN_MENU)
    THEN menu_callback_handler(data, user_id, chat_id)
    ELSE Result(online_modes, say_blocks, <<>>, "no_handler")

----------------------------------------------------------------------------
(* Updates and their handling                                              *)

\* What is kept of the last handled update: who sent what where, the
\* sender's session row before it (before), and the handler's outcome
Seen(op, user_id, chat_id, text, o) ==
    [op |-> op, user_id |-> user_id, chat_id |-> chat_id, text |-> text,
     before |-> online_row(user_id),
     res |-> o.res, out |-> o.out, stages |-> o.stages, end |-> o.end,
     matched |-> o.matched, target_id |-> o.target_id,
     forwarded |-> o.forwarded, called |-> o.called, cmd |-> o.cmd,
     args |-> o.args,
     reply_to |-> IF "reply_to" \in DOMAIN o THEN o.reply_to ELSE None,
     replied |-> IF "replied" \in DOMAIN o THEN o.replied
                 ELSE [type |-> "no_reply", file_id |-> ""]]

\* a handler that is not handle_text_commands, as an Outcome
Handled(r, called, args) ==
    Outcome(r, {}, "handler", FALSE, None, FALSE, called, <<>>, args)

\* the toggle a handled update invoked: as a slash command, a menu button
\* or an alias; None when it invoked none
toggle_of(op, o) ==
    IF op \in {"sayon", "sayson"} THEN op
    ELSE IF op = "callback" /\ o.called \in {"sayon", "sayson"} THEN o.called
    ELSE IF o.called = "COMMAND_HANDLERS" /\ o.cmd = cmd_sayon THEN "sayon"
    ELSE IF o.called = "COMMAND_HANDLERS" /\ o.cmd = cmd_sayson THEN "sayson"
    ELSE NoneStr

MaxForwards == 2

NoPair(who) ==
    [who |-> who, stage |-> "idle", mode |-> NoneStr, fw |-> 0,
     ok1 |-> FALSE, ok2 |-> FALSE]

\* The observer of toggle pairs, for the principal pair.who: stage "first"
\* after an invocation of a toggle that found the principal Inactive, fw the
\* forwards since (counted up to MaxForwards), stage "second" after the next
\* invocation of the same toggle with no other session action between;
\* ok1, ok2: the invocation passed the command's checks.
observe(op, user_id, o) ==
    LET m == toggle_of(op, o)
        ok == o.res \in {"on", "off"}
        off == \/ op = "sayoff"
               \/ (o.called = "COMMAND_HANDLERS" /\ o.cmd = cmd_sayoff)
    IN  IF pair.who = None THEN pair
        ELSE IF o.res = "cleared" THEN NoPair(pair.who)
        ELSE IF user_id # pair.who THEN pair
        ELSE IF m # NoneStr
        THEN IF pair.stage = "first" /\ pair.mode = m
             THEN [pair EXCEPT !.stage = "second", !.ok2 = ok]
             ELSE IF online_row(user_id) = {}
             THEN [who |-> pair.who, stage |-> "first", mode |-> m, fw |-> 0,
                   ok1 |-> ok, ok2 |-> FALSE]
             ELSE NoPair(pair.who)
        ELSE IF off THEN NoPair(pair.who)
        ELSE IF o.forwarded /\ pair.stage = "first"
        THEN [pair EXCEPT !.fw = Min(pair.fw + 1, MaxForwards)]
        ELSE pair

\* An update is handled to its end before the next one is taken
\* (Application.builder() without concurrent_updates): the tables become what
\* the handler left.
Handle(op, user_id, chat_id, text, outcome) ==
    \E o \in {outcome} :
        /\ online_modes' = o.om
        /\ say_blocks' = o.sb
        /\ ev' = Seen(op, user_id, chat_id, text, o)
        /\ pair' = observe(op, user_id, o)
        /\ UNCHANGED <<stores, now, inv>>

\* CommandHandler("sayon", sayon_command): /sayon [chat id]
SayOn(user_id, chat_id, args) ==
    Handle("sayon", user_id, chat_id, <<>>,
           Handled(sayon_command(user_id, chat_id, args), "sayon_command", args))

\* CommandHandler("sayson", sayson_command)
SaySon(user_id, chat_id, args) ==
    Handle("sayson", user_id, chat_id, <<>>,
           Handled(sayson_command(user_id, chat_id, args), "sayson_command", args))

\* CommandHandler("sayoff", sayoff_command)
SayOff(user_id, chat_id) ==
    Handle("sayoff", user_id, chat_id, <<>>,
           Handled(sayoff_command(user_id, chat_id), "sayoff_command", <<>>))

\* CommandHandler("sayoffall", sayoffall_command)
SayOffAll(user_id, chat_id) ==
    Handle("sayoffall", user_id, chat_id, <<>>,
           Handled(sayoffall_command(user_id, chat_id), "sayoffall_command", <<>>))

\* CommandHandler("sayb", sayb_command)
SayB(user_id, chat_id, args) ==
    Handle("sayb", user_id, chat_id, <<>>,
           Handled(sayb_command(user_id, chat_id, args), "sayb_command", args))

\* CommandHandler("sayu", sayu_command)
SayU(user_id, chat_id, args) ==
    Handle("sayu", user_id, chat_id, <<>>,
           Handled(sayu_command(user_id, chat_id, args), "sayu_command", args))

\* the toggle a menu button's data names
button_mode(data) ==
    IF ~startswith(data, PATTERN_MENU) THEN NoneStr
    ELSE IF data = DATA_SAYON THEN "sayon"
    ELSE IF data = DATA_SAYSON THEN "sayson"
    ELSE NoneStr

\* A press of a menu button with this callback data
CallbackQuery(user_id, chat_id, data) ==
    Handle("callback", user_id, chat_id, data,
           Handled(callback_dispatch(data, user_id, chat_id),
                   button_mode(data), <<>>))

\* MessageHandler(filters.TEXT & ~filters.COMMAND, handle_text_commands)
TextMessage(user_id, chat_id, msg_text, reply_to, pick) ==
    Handle("text", user_id, chat_id, msg_text,
           handle_text_commands(user_id, chat_id, msg_text, reply_to, pick)
             @@ [reply_to |-> reply_to])

\* What a command on personal commands or aliases leaves behind: the
\* tables, the outbound calls it made, and the branch it took
Stored(t, out, res) ==
    [pc |-> t.pc, media |-> t.media, ca |-> t.ca, seq |-> t.seq,
     out |-> out, res |-> res]

\* the tables as they are
Kept == Tables(personal_commands, personal_command_media, command_aliases,
               sqlite_sequence)

\* set_personal_command: /set_personal <name words> <template from the first
\* placeholder on>
set_personal_command(user_id, chat_id, args) ==
    IF ~can_ban_mute(user_id)
    THEN Stored(Kept, reply_and_delete(chat_id, "no_rights"), "denied")
    ELSE IF Len(args) < 2
    THEN Stored(Kept, reply_and_delete(chat_id, "usage_set_personal"), "usage")
    ELSE LET at == {i \in 1..Len(args) :
                      lower(args[i]) \in {PLACEHOLDER_S1, PLACEHOLDER_S2,
                                          PLACEHOLDER_T}}
         IN  IF at = {}
             THEN Stored(Kept, reply_and_delete(chat_id, "no_placeholder"),
                         "no_placeholder")
             ELSE LET placeholder_idx == CHOOSE i \in at : \A j \in at : i <= j
                  IN  Stored(add_personal_command(chat_id,
                                 lower(join(SubSeq(args, 1, placeholder_idx - 1))),
                                 join(SubSeq(args, placeholder_idx, Len(args)))),
                             reply_and_delete(chat_id, "personal_created"),
                             "created")

\* the message a /set_cmdm replies to: [type, file_id]; type "no_reply"
\* without one, "text" for one that carries no media
Replied(type, file_id) == [type |-> type, file_id |-> file_id]

\* set_cmdm_command: /set_cmdm <name words>, in reply to a media message
set_cmdm_command(user_id, chat_id, args, reply_to_message) ==
    IF ~can_ban_mute(user_id)
    THEN Stored(Kept, reply_and_delete(chat_id, "no_rights"), "denied")
    ELSE IF reply_to_message.type = "no_reply"
    THEN Stored(Kept, reply_and_delete(chat_id, "reply_to_media"), "no_reply")
    ELSE IF reply_to_message.type
              \notin {"photo", "animation", "video", "sticker"}
    THEN Stored(Kept, reply_and_delete(chat_id, "reply_to_media"), "no_media")
    ELSE IF Len(args) < 1
    THEN Stored(Kept, reply_and_delete(chat_id, "usage_set_cmdm"), "usage")
    ELSE LET cmd_info == get_personal_command(chat_id, lower(join(args)))
         IN  IF cmd_info = {}
             THEN Stored(Kept, reply_and_delete(chat_id, "command_not_found"),
                         "not_found")
             ELSE Stored(add_personal_command_media(
                             (CHOOSE c \in cmd_info : TRUE).id,
                             reply_to_message.type, reply_to_message.file_id),
                         reply_and_delete(chat_id, "media_added"), "added")

\* Lines 4666-4676: the first media of the list with this file_id; {}
\* without one
found_media_in(media_list, file_id) ==
    LET hits == {i \in 1..Len(media_list) : media_list[i].file_id = file_id}
    IN  IF hits = {} THEN {}
        ELSE {media_list[CHOOSE i \in hits : \A j \in hits : i <= j]}

\* Lines 4659-4689: the media found is deleted by its id
del_found_media(chat_id, found_media) ==
    IF found_media = {}
    THEN Stored(Kept, reply_and_delete(chat_id, "media_not_in_command"),
                "not_in_pool")
    ELSE Stored(delete_personal_command_media(
                    (CHOOSE m \in found_media : TRUE).id),
                reply_and_delete(chat_id, "media_deleted"), "deleted")

\* del_cmdm_command: /del_cmdm <name words>, in reply to a media message
del_cmdm_command(user_id, chat_id, args, reply_to_message) ==
    IF ~can_ban_mute(user_id)
    THEN Stored(Kept, reply_and_delete(chat_id, "no_rights"), "denied")
    ELSE IF reply_to_message.type = "no_reply"
    THEN Stored(Kept, reply_and_delete(chat_id, "reply_to_media"), "no_reply")
    ELSE IF reply_to_message.type
              \notin {"photo", "animation", "video", "sticker"}
    THEN Stored(Kept, reply_and_delete(chat_id, "reply_to_media"), "no_media")
    ELSE IF Len(args) < 1
    THEN Stored(Kept, reply_and_delete(chat_id, "usage_del_cmdm"), "usage")
    ELSE LET cmd_info == get_personal_command(chat_id, lower(join(args)))
         IN  IF cmd_info = {}
             THEN Stored(Kept, reply_and_delete(chat_id, "command_not_found"),
                         "not_found")
             ELSE IF get_personal_command_media(
                         (CHOOSE c \in cmd_info : TRUE).id) = <<>>
             THEN Stored(Kept, reply_and_delete(chat_id, "command_no_media"),
                         "no_pool")
             ELSE del_found_media(chat_id,
                      found_media_in(get_personal_command_media(
                                         (CHOOSE c \in cmd_info : TRUE).id),
                                     reply_to_message.file_id))
\* del_personal_command: /del_personal <name words>
del_personal_command(user_id, chat_id, args) ==
    IF ~can_ban_mute(user_id)
    THEN Stored(Kept, reply_and_delete(chat_id, "no_rights"), "denied")
    ELSE IF Len(args) < 1
    THEN Stored(Kept, reply_and_delete(chat_id, "usage_del_personal"), "usage")
    ELSE Stored(delete_personal_command(chat_id, lower(join(args))),
                reply_and_delete(chat_id, "personal_deleted"), "deleted")

\* set_cmd_command: /set_cmd <alias words> <command>
set_cmd_command(user_id, chat_id, args) ==
    IF ~can_ban_mute(user_id)
    THEN Stored(Kept, reply_and_delete(chat_id, "no_rights"), "denied")
    ELSE IF Len(args) < 2
    THEN Stored(Kept, reply_and_delete(chat_id, "usage_set_cmd"), "usage")
    ELSE LET target_cmd == lstrip_slash(lower(args[Len(args)]))
             alias_name == lower(join(SubSeq(args, 1, Len(args) - 1)))
         IN  IF target_cmd \notin COMMAND_HANDLERS
             THEN Stored(Kept, reply_and_delete(chat_id, "command_not_found"),
                         "unknown_command")
             ELSE Stored(add_command_alias(chat_id, alias_name, target_cmd),
                         reply_and_delete(chat_id, "alias_created"), "created")

\* del_cmd_command: /del_cmd <alias>; the alias is context.args[0]
del_cmd_command(user_id, chat_id, args) ==
    IF ~can_ban_mute(user_id)
    THEN Stored(Kept, reply_and_delete(chat_id, "no_rights"), "denied")
    ELSE IF Len(args) < 1
    THEN Stored(Kept, reply_and_delete(chat_id, "usage_del_cmd"), "usage")
    ELSE Stored(delete_command_alias(chat_id, lower(args[1])),
                reply_and_delete(chat_id, "alias_deleted"), "deleted")
\* A command on personal commands or aliases is handled to its end: the
\* tables become what it left
Store(op, user_id, chat_id, args, called, stored) ==
    \E o \in {stored} :
        /\ personal_commands' = o.pc
        /\ personal_command_media' = o.media
        /\ command_aliases' = o.ca
        /\ sqlite_sequence' = o.seq
        /\ ev' = Seen(op, user_id, chat_id, join(args),
                      Handled(Untouched(o.out, o.res), called, args)
                        @@ [replied |-> IF "replied" \in DOMAIN o
                                        THEN o.replied
                                        ELSE [type |-> "no_reply",
                                              file_id |-> ""]])
        /\ UNCHANGED <<online_modes, say_blocks, roles, users, custom_names,
                       foreign_keys, now, pair, inv>>

\* the most rows a run adds to one table
MaxRows == 3

\* CommandHandler("set_personal", set_personal_command)
SetPersonal(user_id, chat_id, args) ==
    /\ sqlite_sequence.personal_commands < MaxRows
    /\ Store("set_personal", user_id, chat_id, args, "set_personal_command",
             set_personal_command(user_id, chat_id, args))

\* CommandHandler("set_cmdm", set_cmdm_command)
SetCmdm(user_id, chat_id, args, reply_to_message) ==
    /\ sqlite_sequence.personal_command_media < MaxRows
    /\ Store("set_cmdm", user_id, chat_id, args, "set_cmdm_command",
             set_cmdm_command(user_id, chat_id, args, reply_to_message)
               @@ [replied |-> reply_to_message])

\* CommandHandler("del_cmdm", del_cmdm_command)
DelCmdm(user_id, chat_id, args, reply_to_message) ==
    Store("del_cmdm", user_id, chat_id, args, "del_cmdm_command",
          del_cmdm_command(user_id, chat_id, args, reply_to_message)
            @@ [replied |-> reply_to_message])
\* CommandHandler("del_personal", del_personal_command)
DelPersonal(user_id, chat_id, args) ==
    Store("del_personal", user_id, chat_id, args, "del_personal_command",
          del_personal_command(user_id, chat_id, args))

\* CommandHandler("set_cmd", set_cmd_command)
SetCmd(user_id, chat_id, args) ==
    Store("set_cmd", user_id, chat_id, args, "set_cmd_command",
          set_cmd_command(user_id, chat_id, args))

\* CommandHandler("del_cmd", del_cmd_command)
DelCmd(user_id, chat_id, args) ==
    Store("del_cmd", user_id, chat_id, args, "del_cmd_command",
          del_cmd_command(user_id, chat_id, args))

\* The calls of handle_text_commands of which one invocation may raise:
\* db.get_all_personal_commands (line 6457), db.get_personal_command_media
\* (6521), reply_photo/reply_animation/reply_video/reply_sticker (6527-6535),
\* the reply_text after a sticker (6536), the reply_text of a command
\* without media (6541), bot.send_message of the forward (6584-6616)
FaultSites ==
    {"get_all_personal_commands", "get_personal_command_media", "reply_media",
     "reply_text_after_sticker", "reply_text", "send_message"}

\* the exception left handle_text_commands after it had sent out
Raised(o, out) ==
    [o EXCEPT !.out = out, !.res = "raised", !.end = "raised",
              !.forwarded = FALSE]

\* Lines 6519-6543 with one failing call.  o is what the handler leaves
\* without a fault, with the rendered text in its last message; pre what it
\* sent before the template was rendered.  Lines 6521 and 6541 stand in no
\* try block; the try block of lines 6526-6539 answers a failed media call
\* with reply_text(result_text).
rendered_with(fault, o, media_list, chat_id, pre, pick) ==
    IF fault = "get_personal_command_media" THEN Raised(o, pre)
    ELSE IF media_list = <<>>
    THEN IF fault = "reply_text" THEN Raised(o, pre) ELSE o
    ELSE LET selected_media == media_list[((pick - 1) % Len(media_list)) + 1]
             fallback == Msg("reply", chat_id, o.out[Len(o.out)].text,
                             "rendered")
         IN  IF fault = "reply_media"
             THEN [o EXCEPT !.out = pre \o <<fallback>>]
             ELSE IF fault = "reply_text_after_sticker"
                     /\ selected_media.type = "sticker"
             THEN [o EXCEPT !.out =
                     pre \o <<Msg("sticker", chat_id, <<>>,
                                  selected_media.file_id), fallback>>]
             ELSE o

\* Lines 6448-6742 with one failing call.  Line 6457 stands in no try
\* block; the try block of lines 6576-6621 logs a failed forward, after
\* db.update_online_activity (6574) has run.
faulted(fault, o, chat_id, text, pick) ==
    IF o.end = "guard" THEN o
    ELSE IF fault = "get_all_personal_commands"
    THEN Raised([o EXCEPT !.om = online_modes, !.stages = {"template"},
                          !.matched = FALSE, !.target_id = None,
                          !.called = NoneStr, !.cmd = <<>>, !.args = <<>>],
                slash_delete(chat_id, text))
    ELSE IF o.end = "template"
    THEN rendered_with(fault, o,
             get_personal_command_media(
                 (CHOOSE c \in find_personal_command(chat_id, text) : TRUE).id),
             chat_id, slash_delete(chat_id, text), pick)
    ELSE IF fault = "send_message" /\ o.forwarded
    THEN [o EXCEPT !.out = SelectSeq(o.out, LAMBDA m : m.kind # "send"),
                   !.forwarded = FALSE, !.res = "forward_failed"]
    ELSE o

\* handle_text_commands(update, context) while one invocation of the call
\* fault raises
handle_text_commands_with(fault, user_id, chat_id, msg_text, reply_to, pick) ==
    faulted(fault,
            handle_text_commands(user_id, chat_id, msg_text, reply_to, pick),
            chat_id, lower(strip(msg_text)), pick)

\* A text message handled while one store or transport call fails
TextMessageFault(fault, user_id, chat_id, msg_text, reply_to, pick) ==
    Handle("text", user_id, chat_id, msg_text,
           handle_text_commands_with(fault, user_id, chat_id, msg_text,
                                     reply_to, pick)
             @@ [reply_to |-> reply_to])
MaxTime == 6

\* one minute passes
Tick ==
    /\ now < MaxTime
    /\ now' = now + 1
    /\ UNCHANGED <<online_modes, say_blocks, stores, ev, pair, inv>>

----------------------------------------------------------------------------
(* Concurrent delivery of toggles.  A handler is a coroutine: it runs       *)
(* without interruption from one await to the next, and another handler    *)
(* runs only while it waits in an await.                                   *)

Slots == {1, 2}

NoCall ==
    [pc |-> "idle", kind |-> NoneStr, mode |-> NoneStr, user_id |-> None,
     chat_id |-> None, args |-> <<>>, seen |-> NoneStr, res |-> NoneStr]

NoCalls == [base |-> {}, calls |-> [s \in Slots |-> NoCall]]

\* the mode as it was when the handler in slot s was started: a read that an
\* await separates from the write
mode_seen(s) == inv.calls[s].seen

\* db.get_online_mode(user_id) as the handler in slot s runs it: in the
\* segment that also writes
mode_read(s) == get_online_mode(inv.calls[s].user_id)

\* What the segment of slot s that holds the checks, the read of the mode
\* and the write leaves (sayon_command and sayson_command: from the start to
\* the first await; the menu callbacks: from query.answer() to
\* edit_message_text)
toggle_segment(s) ==
    LET c == inv.calls[s]
    IN  IF c.kind = "command"
        THEN say_toggle_at(c.mode, c.user_id, c.chat_id, c.args, mode_read(s))
        ELSE msg_cmd_toggle_at(c.mode, c.user_id, c.chat_id, mode_read(s))

\* A toggle is delivered and its handler is started.  base is the table
\* when the first handler of the batch started; a batch holds the toggles of
\* one principal.
Deliver(s, kind, mode, user_id, chat_id, args) ==
    /\ inv.calls[s].pc = "idle"
    /\ \A t \in Slots : inv.calls[t].pc # "idle" => inv.calls[t].user_id = user_id
    /\ inv' = [base |-> IF \A t \in Slots : inv.calls[t].pc = "idle"
                        THEN online_modes ELSE inv.base,
               calls |-> [inv.calls EXCEPT ![s] =
                   [pc |-> "start", kind |-> kind, mode |-> mode,
                    user_id |-> user_id, chat_id |-> chat_id, args |-> args,
                    seen |-> get_online_mode(user_id), res |-> NoneStr]]]
    /\ UNCHANGED <<online_modes, say_blocks, stores, now, ev, pair>>

\* The handler in slot s runs to its next await
Run(s) ==
    LET c == inv.calls[s]
        at(pc) == [inv EXCEPT !.calls[s].pc = pc]
        r == toggle_segment(s)
        write(pc) ==
            /\ online_modes' = r.om
            /\ inv' = [inv EXCEPT !.calls[s].pc = pc, !.calls[s].res = r.res]
    IN  /\ c.pc \notin {"idle", "done"}
        /\ CASE c.kind = "callback" /\ c.pc = "start" ->
                  \* await query.answer()
                  inv' = at("await_answer") /\ UNCHANGED online_modes
             [] c.kind = "callback" /\ c.pc = "await_answer" ->
                  write("await_edit")
             [] c.kind = "command" /\ c.pc = "start" ->
                  write("await_reply")
             [] c.kind = "command" /\ c.pc = "await_reply"
                  /\ c.res \in {"on", "off"} ->
                  \* await log_to_channel(...)
                  inv' = at("await_log") /\ UNCHANGED online_modes
             [] OTHER -> inv' = at("done") /\ UNCHANGED online_modes
        /\ UNCHANGED <<say_blocks, stores, now, ev, pair>>

\* every handler of the batch has returned
Settled ==
    /\ \E s \in Slots : inv.calls[s].pc # "idle"
    /\ \A s \in Slots : inv.calls[s].pc \in {"idle", "done"}

\* the batch is over
Reap ==
    /\ Settled
    /\ inv' = NoCalls
    /\ UNCHANGED <<online_modes, say_blocks, stores, now, ev, pair>>

----------------------------------------------------------------------------
(* Initial state and specifications                                        *)

TXT_HELLO == <<104, 101, 108, 108, 111>>                 \* "hello"
TXT_TEMPLATE == <<1087, 1088, 1080, 1074, 1110, 1090>>   \* "pryvit"
TXT_TEMPLATE_BOBBY ==                                    \* "pryvit @bobby zdorov"
    <<1087, 1088, 1080, 1074, 1110, 1090, 32, 64, 98, 111, 98, 98, 121, 32,
      1079, 1076, 1086, 1088, 1086, 1074>>
TXT_TEMPLATE_GHOST ==                                    \* "pryvit @ghostuser"
    <<1087, 1088, 1080, 1074, 1110, 1090, 32, 64, 103, 104, 111, 115, 116,
      117, 115, 101, 114>>
TXT_ADMINS == <<1072, 1076, 1084, 1110, 1085, 1080>>     \* "adminy"
TXT_CODE == <<97, 51, 100, 102, 98, 48, 48, 49, 51, 99, 52, 101>> \* "a3dfb0013c4e"
TXT_BAN == <<1073, 1072, 1085, 32, 49, 50, 51, 52, 53>>  \* "ban 12345" (alias)
TXT_EFIR == <<1077, 1092, 1110, 1088>>                   \* "efir" (alias)
TXT_TEMPLATE_BOB ==                                      \* "pryvit @bob zdorov"
    <<1087, 1088, 1080, 1074, 1110, 1090, 32, 64, 98, 111, 98, 32, 1079, 1076, 1086, 1088, 1086, 1074>>
TXT_CODE_LABEL ==                                        \* "kod: a3dfb0013c4e"
    <<1082, 1086, 1076, 58, 32, 97, 51, 100, 102, 98, 48, 48, 49, 51, 99, 52, 101>>
ARG_800 == <<56, 48, 48>>                                \* "800"
ARG_ABC == <<97, 98, 99>>                                \* "abc"
ARG_3 == <<51>>                                          \* "3"
ARG_7 == <<55>>                                          \* "7"

\* Bob: a user of the local directory who sends nothing
Bob == [user_id |-> 2, username |-> <<98, 111, 98, 98, 121>>,
        full_name |-> <<66, 111, 98>>]

\* another user of the local directory, with the handle "bob"
ShortBob == [user_id |-> 4, username |-> <<98, 111, 98>>,
             full_name |-> <<66, 111, 98>>]

\* The state after main() has started the bot: clear_all_online_modes() has
\* emptied online_modes.  The other tables hold what earlier runs left: the
\* roles of 7 and 3, the senders and the rows of directory in users, in chat 100 the personal
\* command "pryvit" (template "@s1 pryvitav @s2! @t") and the aliases
\* "ban" -> "ban_s" and "efir" -> "sayon".
InitWith(directory) ==
    /\ online_modes = clear_all_online_modes
    /\ say_blocks = {}
    /\ roles = (7 :> "head_admin" @@ 3 :> "gnome")
    /\ users = {[user_id |-> u, username |-> username(u),
                 full_name |-> full_name(u)] : u \in Principals} \cup directory
    /\ custom_names = [u \in {} |-> <<>>]
    /\ personal_commands =
         {[id |-> 1, chat_id |-> 100, command_name |-> TXT_TEMPLATE,
           template_text |->
             <<64, 115, 49, 32, 1087, 1088, 1080, 1074, 1110, 1090, 1072,
               1074, 32, 64, 115, 50, 33, 32, 64, 116>>]}
    /\ personal_command_media = {}
    /\ command_aliases =
         {[chat_id |-> 100, alias_name |-> <<1073, 1072, 1085>>,
           target_command |-> <<98, 97, 110, 95, 115>>],
          [chat_id |-> 100, alias_name |-> TXT_EFIR,
           target_command |-> cmd_sayon]}
    /\ sqlite_sequence = [personal_commands |-> 1, personal_command_media |-> 0]
    /\ now = 0
    /\ ev = Seen("none", None, None, <<>>,
                 Handled(Untouched(<<>>, "none"), NoneStr, <<>>))
    /\ inv = NoCalls

InitTables == InitWith({Bob, ShortBob})

\* get_connection() is sqlite3.connect(db_path) and sets no PRAGMA: foreign
\* keys are not enforced
Init == InitTables /\ foreign_keys = FALSE /\ pair = NoPair(None)

\* the chats a sender can write in: the groups and the sender's private chat
ChatsOf(u) == GroupChats \cup {u}

\* Text messages: <<text, author of the message replied to>>
Messages ==
    {<<TXT_HELLO, None>>, <<TXT_TEMPLATE, None>>, <<TXT_TEMPLATE, 2>>,
     <<TXT_TEMPLATE_BOBBY, None>>, <<TXT_TEMPLATE_GHOST, None>>,
     <<TXT_ADMINS, None>>, <<TXT_CODE, None>>, <<TXT_BAN, None>>,
     <<TXT_EFIR, None>>, <<TXT_TEMPLATE_BOB, None>>, <<TXT_CODE_LABEL, None>>}

\* The dispatch pipeline: every sender and every message in the allowed
\* chats and in private; sayon sessions are opened in chat 600 and by the alias
\* "efir" in chat 100.
Next ==
    \/ \E u \in Principals : SayOn(u, 600, <<>>)
    \/ \E u \in Principals : \E data \in {DATA_MENU_MESSAGES, DATA_SAYON} :
          CallbackQuery(u, 600, data)
    \/ \E u \in Principals : \E c \in {100, 600, u} : \E m \in Messages :
          TextMessage(u, c, m[1], m[2], 1)

Spec == Init /\ [][Next]_vars

\* The session engine: toggles with and without a target chat, sayoff,
\* sayoffall, the menu buttons, and from every chat a sender can write in a
\* plain text and a personal command.  Sessions are opened in chat 600.
NextSession ==
    \/ \E u \in Principals : \E a \in {<<>>, <<ARG_800>>} : SayOn(u, 600, a)
    \/ \E u \in Principals : \E a \in {<<>>, <<ARG_800>>} : SaySon(u, 600, a)
    \/ \E u \in Principals : SayOff(u, 600)
    \/ \E u \in Principals : SayOffAll(u, 600)
    \/ \E u \in Principals : \E data \in {DATA_SAYON, DATA_SAYSON, DATA_SAYOFFALL} :
          CallbackQuery(u, 600, data)
    \/ \E u \in Principals : \E c \in ChatsOf(u) :
          \E t \in {TXT_HELLO, TXT_TEMPLATE_BOBBY} : TextMessage(u, c, t, None, 1)

SpecSession == Init /\ [][NextSession]_vars

\* Pairs of toggles of one observed principal: the principal toggles, writes
\* and switches off in chat 600; the owner blocks and unblocks the principal
\* and switches every mode off.
InitPair ==
    InitTables /\ foreign_keys = FALSE /\ \E who \in Principals : pair = NoPair(who)

NextPair ==
    \/ \E a \in {<<>>, <<ARG_800>>, <<ARG_ABC>>} : SayOn(pair.who, 600, a)
    \/ \E a \in {<<>>, <<ARG_800>>, <<ARG_ABC>>} : SaySon(pair.who, 600, a)
    \/ SayOff(pair.who, 600)
    \/ TextMessage(pair.who, 600, TXT_HELLO, None, 1)
    \/ SayB(9, 600, <<str_of_int(pair.who)>>)
    \/ SayU(9, 600, <<str_of_int(pair.who)>>)
    \/ SayOffAll(9, 600)

SpecPair == InitPair /\ [][NextPair]_vars

\* Two toggles of one principal in flight: slash commands sent in chat 600,
\* menu buttons pressed in chat 100
NextConc ==
    \/ \E s \in Slots : \E u \in {7, 1} : \E m \in {"sayon", "sayson"} :
          \E a \in {<<>>, <<ARG_800>>} : Deliver(s, "command", m, u, 600, a)
    \/ \E s \in Slots : \E u \in {7, 1} : \E m \in {"sayon", "sayson"} :
          Deliver(s, "callback", m, u, 100, <<>>)
    \/ \E s \in Slots : Run(s)
    \/ Reap

SpecConc == Init /\ [][NextConc]_vars

\* Time passes: the head admin and the gnome open a signed session in chat
\* 600, write there and switch off
NextTime ==
    \/ Tick
    \/ \E u \in {7, 3} : SayOn(u, 600, <<>>)
    \/ \E u \in {7, 3} : SayOff(u, 600)
    \/ \E u \in {7, 3} : TextMessage(u, 600, TXT_HELLO, None, 1)

SpecTime == Init /\ [][NextTime]_vars
----------------------------------------------------------------------------

\* Personal commands: the owner registers, replaces and deletes commands of
\* chat 100 and adds media to their pools; a member, who may not register,
\* writes.  The
\* connections of the run enforce foreign keys or, as sqlite3.connect()
\* leaves them, do not.
ARGS_HI == <<<<1055, 1088, 1080, 1074, 1110, 1090>>, <<64, 115, 49>>, <<1074, 1110, 1090, 1072, 1108>>, <<64, 115, 50>>>>   \* "Pryvit @s1 vitaie @s2"
ARGS_HI_ALL ==                                   \* "pryvit usim @s1 vitaie usikh"
    <<<<1087, 1088, 1080, 1074, 1110, 1090>>, <<1091, 1089, 1110, 1084>>, <<64, 115, 49>>, <<1074, 1110, 1090, 1072, 1108>>, <<1091, 1089, 1110, 1093>>>>
NAME_HI == <<<<1055, 1088, 1080, 1074, 1110, 1090>>>>             \* "Pryvit"
NAME_HI_ALL == <<<<1087, 1088, 1080, 1074, 1110, 1090>>, <<1091, 1089, 1110, 1084>>>>  \* "pryvit usim"
TXT_HI_ALL_BOBBY ==                              \* "Pryvit usim @bobby"
    <<1055, 1088, 1080, 1074, 1110, 1090, 32, 1091, 1089, 1110, 1084, 32, 64, 98, 111, 98, 98, 121>>
PHOTO == Replied("photo", "file_1")

TemplateTexts == {TXT_TEMPLATE_BOBBY, TXT_HI_ALL_BOBBY}

InitTemplates == InitTables /\ foreign_keys \in BOOLEAN /\ pair = NoPair(None)

NextTemplates ==
    \/ \E a \in {ARGS_HI, ARGS_HI_ALL} : SetPersonal(9, 100, a)
    \/ SetPersonal(1, 100, ARGS_HI)
    \/ \E a \in {NAME_HI, NAME_HI_ALL} : SetCmdm(9, 100, a, PHOTO)
    \/ SetCmdm(9, 100, NAME_HI, Replied("no_reply", ""))
    \/ \E a \in {NAME_HI, NAME_HI_ALL} : DelPersonal(9, 100, a)
    \/ \E t \in TemplateTexts : TextMessage(1, 100, t, None, 1)

SpecTemplates == InitTemplates /\ [][NextTemplates]_vars

----------------------------------------------------------------------------

\* Aliases: the owner (and, refused, a member) registers aliases in the
\* chats 100 and 600; the owner, the head admin and a member write there.
ARGS_BAN_T == <<<<1073, 1072, 1085>>, <<98, 97, 110, 95, 116>>>>    \* "ban ban_t"
ARGS_BAN_UP_S == <<<<1041, 1072, 1085>>, <<47, 66, 65, 78, 95, 83>>>>  \* "Ban /BAN_S"
ARGS_QUIET_T ==                                          \* "ban tykho ban_t"
    <<<<1073, 1072, 1085>>, <<1090, 1080, 1093, 1086>>, <<98, 97, 110, 95, 116>>>>
ARGS_QUIET_UP_S ==                                       \* "Ban Tykho ban_s"
    <<<<1041, 1072, 1085>>, <<1058, 1080, 1093, 1086>>, <<98, 97, 110, 95, 115>>>>
ARGS_BAN_BAN == <<<<1073, 1072, 1085>>, <<98, 97, 110>>>>   \* "ban ban"
ALIAS_BAN == <<1073, 1072, 1085>>                         \* "ban"
ALIAS_QUIET == <<1073, 1072, 1085, 32, 1090, 1080, 1093, 1086>>  \* "ban tykho"
TXT_QUIET ==                                             \* "ban tykho 12345"
    <<1073, 1072, 1085, 32, 1090, 1080, 1093, 1086, 32, 49, 50, 51, 52, 53>>
TXT_QUIET_UP ==                                          \* "Ban  Tykho 12345 Spam"
    <<1041, 1072, 1085, 32, 32, 1058, 1080, 1093, 1086, 32, 49, 50, 51, 52, 53, 32, 1057, 1087, 1072, 1084>>

AliasTexts == {TXT_HELLO, TXT_BAN, TXT_QUIET, TXT_QUIET_UP}

NextAlias ==
    \/ \E u \in {9, 1} : \E c \in {100, 600} :
          \E a \in {ARGS_BAN_T, ARGS_BAN_UP_S, ARGS_QUIET_T, ARGS_QUIET_UP_S,
                    ARGS_BAN_BAN} : SetCmd(u, c, a)
    \/ \E u \in {9, 7, 1} : \E c \in {100, 600} : \E t \in AliasTexts :
          TextMessage(u, c, t, None, 1)

SpecAlias == Init /\ [][NextAlias]_vars

----------------------------------------------------------------------------

\* Faults: the owner adds a photo or a sticker to the pool of "pryvit" and
\* opens a signed session in chat 600; the owner and a member write in the
\* chats 100 and 600 while one call of the handler fails.
STICKER == Replied("sticker", "file_2")

NextFault ==
    \/ \E r \in {PHOTO, STICKER} : SetCmdm(9, 100, NAME_HI, r)
    \/ SayOn(9, 600, <<>>)
    \/ \E f \in FaultSites : \E u \in {9, 1} : \E c \in {100, 600} :
          \E t \in {TXT_HELLO, TXT_TEMPLATE_BOBBY} : \E pick \in {1, 2} :
              TextMessageFault(f, u, c, t, None, pick)

SpecFault == Init /\ [][NextFault]_vars

----------------------------------------------------------------------------
(* The dispatch pipeline: properties of Spec                               *)

\* the last update was a text message
TextSeen == ev.op = "text"

\* the sender of the last update had a session when it arrived
HadSession == ev.before # {}

\* the stages after the session stage
LateStages == {"phrase", "restore", "alias"}

\* C1: when a personal command's name is a prefix of the text and no
\* secondary participant is resolved, the dispatch ends in the template
\* stage.  Stated here is what follows from that for every sender: nothing
\* is sent, nothing is forwarded, and no handler of a later stage is invoked.
C1_UnresolvedTemplateEndsDispatch ==
    (TextSeen /\ ev.matched /\ ev.target_id = None)
        => (ev.out = <<>> /\ ~ev.forwarded /\ ev.called = NoneStr)

\* C2: a text message of a sender with a session that reaches the session
\* stage ends there.  Stated here is what follows from that: no phrase
\* command, no restore import and no alias command is invoked for it, and
\* no later stage answers it with a refusal.
C2_SessionStageTerminates ==
    (TextSeen /\ HadSession /\ "session" \in ev.stages)
        => (ev.called = NoneStr /\ ev.res # "denied")

\* C10: for a sender who is neither owner nor head admin, no text message
\* reaches the phrase, restore or alias stage: no command is invoked, and
\* the only thing ever sent is a rendered personal command (a text that
\* starts with "/" is deleted, whoever sent it).
C10_NonAdminOnlyTemplates ==
    (TextSeen /\ ~is_owner(ev.user_id) /\ ~is_head_admin(ev.user_id))
        => /\ ev.stages \cap LateStages = {}
           /\ ev.called = NoneStr
           /\ ev.res # "denied"
           /\ ev.end \in {"guard", "template", "gate"}
           /\ ev.end # "template"
                => \A i \in 1..Len(ev.out) : ev.out[i].kind = "delete"

\* C10 witness: the gnome, in a session opened in chat 600, writes the
\* admin-list phrase there and the pipeline stops at the administrator check
C10_Witness ==
    /\ TextSeen /\ ev.user_id = 3 /\ ev.chat_id = 600 /\ ev.text = TXT_ADMINS
    /\ HadSession
    /\ ev.end = "gate"

----------------------------------------------------------------------------
\* the texts of the pool that are restore codes: bare, and after the label
RestoreTokens == {TXT_CODE, TXT_CODE_LABEL}

\* C16 as claimed: a restore code starts the import when its sender is an
\* owner, every other sender is answered with the refusal and no import is
\* started, and alias resolution does not run.
C16_RestoreTokenGatedToOwner ==
    (TextSeen /\ ev.text \in RestoreTokens) =>
        /\ "alias" \notin ev.stages
        /\ ev.user_id \in OWNER_IDS => ev.called = "process_backup_import"
        /\ ev.user_id \notin OWNER_IDS =>
              /\ ev.called # "process_backup_import"
              /\ ev.res = "denied"
              /\ ev.out = reply_and_delete(ev.chat_id, "owner_only_import")

\* C16: a restore code never reaches alias resolution and starts the import
\* only for an owner.  When it reaches the restore stage the dispatch ends
\* there: the owner's code starts the import with the code in upper case,
\* the head admin's is answered with the refusal and starts nothing.  A
\* sender who is neither owner nor head admin is stopped at the
\* administrator check and is sent nothing.
C16_RestoreTokenAtRestoreStage ==
    (TextSeen /\ ev.text \in RestoreTokens) =>
        /\ "alias" \notin ev.stages /\ ev.called # "COMMAND_HANDLERS"
        /\ ev.called = "process_backup_import" => ev.user_id \in OWNER_IDS
        /\ "restore" \in ev.stages =>
              /\ ev.end = "restore"
              /\ ev.user_id \in OWNER_IDS =>
                    /\ ev.called = "process_backup_import"
                    /\ ev.args = <<upper(TXT_CODE)>>
                    /\ ev.out = <<>>
              /\ ev.user_id \notin OWNER_IDS =>
                    /\ ev.called = NoneStr /\ ev.res = "denied"
                    /\ ev.out = reply_and_delete(ev.chat_id, "owner_only_import")
        /\ ~(ev.user_id \in OWNER_IDS
               \/ (ev.user_id \in DOMAIN roles /\ roles[ev.user_id] = "head_admin"))
              => ev.end = "gate" /\ ev.out = <<>> /\ ev.called = NoneStr

\* the head admin sent the code after its label and was refused
C16_Witness ==
    /\ TextSeen /\ ev.user_id = 7 /\ ev.text = TXT_CODE_LABEL
    /\ ev.end = "restore" /\ ev.res = "denied"

\* the text a client shows for an HTML body: the tags left out
RECURSIVE Shown(_, _)
Shown(s, in_tag) ==
    IF s = <<>> THEN <<>>
    ELSE IF in_tag THEN Shown(Tail(s), s[1] # 62)
    ELSE IF s[1] = 60 THEN Shown(Tail(s), TRUE)
    ELSE <<s[1]>> \o Shown(Tail(s), FALSE)

\* "pryvitav", "zdorov"
WORD_GREETED == <<1087, 1088, 1080, 1074, 1110, 1090, 1072, 1074>>
WORD_HEALTHY == <<1079, 1076, 1086, 1088, 1086, 1074>>

\* C20 as claimed, for the short handle of scenario 1: the owner ("Alice")
\* writes "pryvit @bob zdorov" in chat 100, where the command "pryvit" has the
\* template "@s1 pryvitav @s2! @t" and the local directory holds the handle
\* bob of "Bob"; the reply reads "Alice pryvitav Bob! zdorov".
C20_ShortHandleRendered ==
    (TextSeen /\ ev.text = TXT_TEMPLATE_BOB /\ ev.chat_id = 100
       /\ ev.user_id = 9) =>
        /\ ev.res = "rendered" /\ Len(ev.out) = 1
        /\ Shown(ev.out[1].text, FALSE)
             = full_name(9) \o <<32>> \o WORD_GREETED \o <<32>>
                 \o ShortBob.full_name \o <<33, 32>> \o WORD_HEALTHY

\* C20: a handle of five or more characters that the local directory
\* resolves: whoever writes "pryvit @bobby zdorov" in chat 100 is answered
\* with the template in which @s1 is the mention of the sender, @s2 the
\* mention of Bob (user 2) and @t the remainder without the handle; shown,
\* the reply reads "<sender> pryvitav Bob! zdorov".
C20_LocalHandleRendered ==
    (TextSeen /\ ev.text = TXT_TEMPLATE_BOBBY /\ ev.chat_id = 100) =>
        /\ ev.res = "rendered" /\ ev.end = "template" /\ ev.target_id = 2
        /\ Len(ev.out) = 1 /\ ev.out[1].kind = "reply" /\ ev.out[1].to = 100
        /\ ev.out[1].text
             = ANCHOR_OPEN \o str_of_int(ev.user_id) \o ANCHOR_MID
                 \o full_name(ev.user_id) \o ANCHOR_CLOSE
                 \o <<32>> \o WORD_GREETED \o <<32>>
                 \o ANCHOR_OPEN \o <<50>> \o ANCHOR_MID \o Bob.full_name
                 \o ANCHOR_CLOSE \o <<33, 32>> \o WORD_HEALTHY
        /\ Shown(ev.out[1].text, FALSE)
             = full_name(ev.user_id) \o <<32>> \o WORD_GREETED \o <<32>>
                 \o Bob.full_name \o <<33, 32>> \o WORD_HEALTHY

\* the owner wrote "pryvit @bobby zdorov" in chat 100 and the reply shows
\* "Alice pryvitav Bob! zdorov"
C20_Witness ==
    /\ TextSeen /\ ev.text = TXT_TEMPLATE_BOBBY /\ ev.chat_id = 100
    /\ ev.user_id = 9 /\ ev.res = "rendered"
    /\ Shown(ev.out[1].text, FALSE)
         = <<65, 108, 105, 99, 101, 32>> \o WORD_GREETED
             \o <<32, 66, 111, 98, 33, 32>> \o WORD_HEALTHY
(* The session engine: properties of SpecSession                           *)

\* the session row the sender of the last update had when it arrived
Before == CHOOSE r \in ev.before : TRUE

\* the bot.send_message calls of the last update
Sends == SelectSeq(ev.out, LAMBDA m : m.kind = "send")

\* C3: once a principal who may open a session (owner, head admin, gnome)
\* has switched a mode on in chat c, every text message of the principal in
\* c that names no personal command is forwarded exactly once while the
\* session lasts.
C3_SessionTextForwardedOnce ==
    (TextSeen /\ HadSession /\ can_use_bot(ev.user_id) /\ ~ev.matched
       /\ Before.source_chat_id = ev.chat_id)
        => (ev.forwarded /\ Len(Sends) = 1)

\* C4: a text message of a sender who is no owner is never forwarded when
\* its chat is not the source chat of the sender's session.
C4_SourceAffinity ==
    (TextSeen /\ HadSession /\ ~is_owner(ev.user_id)
       /\ Before.source_chat_id # ev.chat_id)
        => (~ev.forwarded /\ Sends = <<>>)

\* C4 witness: the head admin, in a session opened in chat 600, writes in
\* chat 100; the message reaches the session stage and is not forwarded
C4_Witness ==
    /\ TextSeen /\ ev.user_id = 7 /\ ev.chat_id = 100 /\ HadSession
    /\ Before.source_chat_id = 600
    /\ "session" \in ev.stages
    /\ ~ev.forwarded

C8_OneSessionPerPrincipal ==
    /\ \A r1, r2 \in online_modes : r1.user_id = r2.user_id => r1 = r2
    /\ \A r \in online_modes : r.mode \in {"sayon", "sayson"}

\* C8 witness: a principal in sayon invokes sayson with another target; the
\* row is replaced while another principal holds a session too
C8_Witness ==
    /\ ev.op = "sayson" /\ ev.res = "on" /\ HadSession
    /\ Before.mode = "sayon"
    /\ Before.target_chat_id # get_online_mode_target(ev.user_id)
    /\ Cardinality(online_modes) >= 2

----------------------------------------------------------------------------
(* Pairs of toggles: properties of SpecPair                                *)

\* C6 as stated: from Inactive, two successive invocations of the same
\* toggle, with forwards and no other session action between, leave the
\* principal without a session row.
C6_TwoInvocationsLeaveInactive ==
    pair.stage = "second" => online_row(pair.who) = {}

\* C6: from Inactive, two successive invocations of the same toggle that
\* both pass the command's checks (the principal may use the bot, is not
\* blocked, and the argument is absent or an integer), with forwards and no
\* other session action between, leave the principal without a session row.
C6_TwoAcceptedInvocationsLeaveInactive ==
    (pair.stage = "second" /\ pair.ok1 /\ pair.ok2)
        => online_row(pair.who) = {}

\* C6 witness: the second accepted invocation, after as many forwards as
\* are counted
C6_Witness ==
    /\ pair.stage = "second" /\ pair.ok1 /\ pair.ok2
    /\ pair.fw = MaxForwards
    /\ online_row(pair.who) = {}

----------------------------------------------------------------------------
(* Concurrent toggles: properties of SpecConc                              *)

\* what the handler of call c leaves of the table rows when it runs alone
SerialToggle(rows, c) ==
    IF \/ ~can_use_bot(c.user_id)
       \/ is_say_blocked(c.user_id)
       \/ (c.kind = "command" /\ c.args # <<>> /\ ~is_int(c.args[1]))
    THEN rows
    ELSE IF mode_in(rows, c.user_id) = c.mode
    THEN delete_row(rows, c.user_id)
    ELSE InsertOrReplace(rows,
             online_row_of(c.user_id, c.mode, c.chat_id,
                           IF c.kind = "command" /\ c.args # <<>>
                           THEN int_of(c.args[1]) ELSE None,
                           now))

\* what the handlers of the calls in slots order[1], order[2], ... leave of
\* the table rows when each runs alone, one after the other
RECURSIVE SerialRun(_, _)
SerialRun(rows, order) ==
    IF order = <<>> THEN rows
    ELSE SerialRun(SerialToggle(rows, inv.calls[Head(order)]), Tail(order))

\* the tables the serial orders of the batch's handlers leave
SerialOutcomes ==
    LET live == {s \in Slots : inv.calls[s].pc # "idle"}
        orders == {o \in UNION {[1..n -> live] : n \in 1..Cardinality(Slots)} :
                     /\ Len(o) = Cardinality(live)
                     /\ \A i, j \in 1..Len(o) : o[i] = o[j] => i = j}
    IN  {SerialRun(inv.base, o) : o \in orders}

\* C7: when the handlers of two toggles of one principal have run
\* interleaved at their awaits, the table is what one of the serial orders
\* leaves.
C7_InterleavingsSerializable ==
    Settled => online_modes \in SerialOutcomes

\* C7 witness: two accepted toggles of one principal, a slash command and a
\* menu button, both started before either wrote
C7_Witness ==
    /\ Settled
    /\ inv.calls[1].kind = "command" /\ inv.calls[2].kind = "callback"
    /\ inv.calls[1].res \in {"on", "off"} /\ inv.calls[2].res \in {"on", "off"}
    /\ inv.calls[1].seen = mode_in(inv.base, inv.calls[1].user_id)
    /\ inv.calls[2].seen = mode_in(inv.base, inv.calls[2].user_id)

----------------------------------------------------------------------------
(* Expiry: properties of SpecTime                                          *)

\* the minutes of inactivity after which the reply of sayon_command and
\* sayson_command says the mode switches off
TIMEOUT == 5

\* C9: a session is switched off once 5 minutes have passed without a
\* forward of its principal: no session row is older in activity than that.
C9_IdleSessionExpires ==
    \A r \in online_modes : now - r.last_activity <= TIMEOUT

----------------------------------------------------------------------------
(* The session engine: further properties of SpecSession                   *)

\* the sender is an owner or holds the role head_admin
OwnerOrHeadAdmin(user_id) ==
    \/ user_id \in OWNER_IDS
    \/ (user_id \in DOMAIN roles /\ roles[user_id] = "head_admin")

\* the update handled by this step is /sayoffall or a press of the menu
\* button "switch every mode off"
BulkDisableStep ==
    \/ ev'.op = "sayoffall"
    \/ (ev'.op = "callback" /\ ev'.text = DATA_SAYOFFALL)

\* C13: the bulk disable-all action, as a command or as a menu button,
\* switches the sessions off only for an owner or head admin, and then no
\* session is left; for every other sender it leaves the sessions as they
\* were, and the command answers with the refusal.
C13_BulkDisableOnlyForAdmins ==
    [][BulkDisableStep =>
          /\ (ev'.res = "cleared" =>
                OwnerOrHeadAdmin(ev'.user_id) /\ online_modes' = {})
          /\ (online_modes' # online_modes => ev'.res = "cleared")
          /\ (~OwnerOrHeadAdmin(ev'.user_id) =>
                /\ online_modes' = online_modes
                /\ (ev'.op = "sayoffall" =>
                      /\ ev'.res = "denied"
                      /\ ev'.out = reply_and_delete(ev'.chat_id,
                                                    "owner_head_admin_only")))
    ]_vars

\* the head admin, in a session, has switched every mode off with /sayoffall
C13_Witness ==
    /\ ev.op = "sayoffall" /\ ev.user_id = 7 /\ ev.res = "cleared"
    /\ HadSession /\ online_modes = {}

----------------------------------------------------------------------------
\* the chat a session row forwards to
Destination(row) ==
    IF row.target_chat_id # None THEN row.target_chat_id ELSE USER_CHAT_ID

\* C14: every message a text update forwards goes to the chat the sender's
\* session named when it was switched on, and to USER_CHAT_ID when it named
\* none; a toggle that switches a mode on records the chat id it was given,
\* and none when it was given none.
C14_ForwardDestination ==
    /\ TextSeen =>
          \A i \in 1..Len(ev.out) :
              ev.out[i].kind = "send" =>
                  HadSession /\ ev.out[i].to = Destination(Before)
    /\ (ev.op \in {"sayon", "sayson"} /\ ev.res = "on") =>
          \E r \in online_row(ev.user_id) :
              r.target_chat_id
                = (IF ev.args = <<>> THEN None ELSE int_of(ev.args[1]))

\* the head admin, in an anonymous session switched on with the chat id 800,
\* wrote in the session's chat and the message went to chat 800
C14_Witness ==
    /\ TextSeen /\ ev.user_id = 7 /\ ev.chat_id = 600 /\ HadSession
    /\ Before.mode = "sayson" /\ Before.target_chat_id = 800
    /\ ev.forwarded /\ Len(Sends) = 1 /\ Sends[1].to = 800 /\ 800 # USER_CHAT_ID

\* "\n\n-- " followed by the author's name, a space and the author's handle
SignatureOf(user_id) ==
    SIGNATURE_LEAD \o safe_send_message(full_name(user_id)) \o <<32>>
        \o (IF username(user_id) # <<>>
            THEN <<64>> \o safe_send_message(username(user_id)) ELSE <<>>)

\* C15: the body of every forward of a signed session (sayon) is the
\* sanitized message followed by one signature line that names the author;
\* the body of every forward of an anonymous session (sayson) is the
\* sanitized message alone, with nothing appended.
C15_SignatureBySessionMode ==
    (TextSeen /\ ev.forwarded) =>
        /\ Len(Sends) = 1
        /\ Before.mode = "sayon" =>
              Sends[1].text
                = sanitize_message_text(ev.text) \o SignatureOf(ev.user_id)
        /\ Before.mode = "sayson" =>
              Sends[1].text = sanitize_message_text(ev.text)

\* the head admin, in a signed session, wrote "hello" and the forward reads
\* "hello", an empty line, and the dash with the head admin's name and handle
C15_Witness ==
    /\ TextSeen /\ ev.user_id = 7 /\ ev.forwarded /\ Before.mode = "sayon"
    /\ ev.text = TXT_HELLO
    /\ Sends[1].text = TXT_HELLO \o SIGNATURE_LEAD \o full_name(7) \o <<32, 64>>
                         \o username(7)
(* Personal commands: properties of SpecTemplates                          *)

\* the commands of the chat whose name, in lower case, is a prefix of text
Matching(chat_id, text) ==
    {c \in personal_commands :
        c.chat_id = chat_id /\ startswith(text, lower(c.command_name))}

\* the number of words of a command's name
words(c) == Len(split(c.command_name))

\* C11: for every text, at most one personal command is selected; it is one
\* of the commands of the chat whose lower-cased name is a prefix of the
\* lower-cased text, one is selected whenever there is such a command, and
\* none of those has more words in its name than the selected one.  The
\* handler acts on the command the selection returns.
C11_LongestNameSelected ==
    \A t \in TemplateTexts :
        LET text == lower(strip(t))
            sel == find_personal_command(100, text)
        IN  /\ Cardinality(sel) <= 1
            /\ sel \subseteq Matching(100, text)
            /\ (Matching(100, text) # {} => sel # {})
            /\ \A s \in sel : \A c \in Matching(100, text) : words(c) <= words(s)
            /\ (TextSeen /\ ev.text = t => ev.matched = (sel # {}))

\* the text "Pryvit usim @bobby" was rendered while the commands "pryvit"
\* and "pryvit usim" both matched it
C11_Witness ==
    /\ TextSeen /\ ev.text = TXT_HI_ALL_BOBBY /\ ev.res = "rendered"
    /\ \E c, d \in Matching(100, lower(TXT_HI_ALL_BOBBY)) :
          /\ words(c) = 1 /\ words(d) = 2
          /\ find_personal_command(100, lower(TXT_HI_ALL_BOBBY)) = {d}
----------------------------------------------------------------------------
\* C19: no media row is left whose personal command no longer exists.
C19_NoOrphanMedia ==
    \A m \in personal_command_media :
        \E c \in personal_commands : c.id = m.command_id

----------------------------------------------------------------------------
(* Faults: properties of SpecFault                                         *)

\* C17: whichever single call fails (listing the personal commands, reading
\* the media pool, sending the rendered text or media, forwarding), no
\* exception leaves handle_text_commands.
C17_NoExceptionEscapes == TextSeen => ev.res # "raised"

----------------------------------------------------------------------------
(* Aliases: properties of SpecAlias                                        *)

\* the aliases of the chat that spell the words ws, whatever their case
Registered(chat_id, ws) ==
    {a \in command_aliases :
        a.chat_id = chat_id /\ a.alias_name = lower(join(ws))}

\* the lengths of the leading runs of the words ws that are aliases of the chat
AliasRuns(chat_id, ws) ==
    {n \in 1..Len(ws) : Registered(chat_id, SubSeq(ws, 1, n)) # {}}

\* the longest of them; 0 without one
LongestRun(chat_id, ws) ==
    IF AliasRuns(chat_id, ws) = {} THEN 0
    ELSE CHOOSE n \in AliasRuns(chat_id, ws) :
            \A m \in AliasRuns(chat_id, ws) : m <= n

\* the last update was a text message that reached the alias stage
AliasStageSeen == TextSeen /\ "alias" \in ev.stages

\* C12: a text that reaches alias resolution dispatches the command of the
\* longest leading run of its words that is an alias of the chat, and the
\* command's arguments are exactly the words of the message after that run.
C12_LongestAliasWithTrailingTokens ==
    AliasStageSeen =>
        LET ws == split(ev.text)
            n == LongestRun(ev.chat_id, ws)
        IN  IF n = 0 THEN ev.called # "COMMAND_HANDLERS"
            ELSE /\ ev.called = "COMMAND_HANDLERS"
                 /\ \E a \in Registered(ev.chat_id, SubSeq(ws, 1, n)) :
                       ev.cmd = a.target_command
                 /\ ev.args = SubSeq(ws, n + 1, Len(ws))

\* C18: a chat holds at most one mapping per alias text, whatever the case
\* of the registrations; after a registration the alias, looked up in any
\* case, gives the command just registered; and a message whose words are
\* the alias's words, in any case and with any whitespace between them,
\* dispatches the alias's command.
C18_OneMappingLastWins ==
    /\ \A a, b \in command_aliases :
          (a.chat_id = b.chat_id /\ lower(a.alias_name) = lower(b.alias_name))
              => a = b
    /\ (ev.op = "set_cmd" /\ ev.res = "created") =>
          LET name == join(SubSeq(ev.args, 1, Len(ev.args) - 1))
              target == lstrip_slash(lower(ev.args[Len(ev.args)]))
          IN  /\ Cardinality(Registered(ev.chat_id, split(name))) = 1
              /\ get_command_alias(ev.chat_id, name) = target
              /\ get_command_alias(ev.chat_id, upper(name)) = target
              /\ get_command_alias(ev.chat_id, lower(name)) = target
    /\ (AliasStageSeen /\ ev.text \in {TXT_QUIET, TXT_QUIET_UP}
          /\ Registered(ev.chat_id, <<ALIAS_QUIET>>) # {}) =>
          \E a \in Registered(ev.chat_id, <<ALIAS_QUIET>>) :
              ev.called = "COMMAND_HANDLERS" /\ ev.cmd = a.target_command

\* the alias "ban" of chat 100, which pointed to ban_s, was registered again
\* as "Ban" for ban_t and now points to ban_t alone
C18_Witness ==
    /\ ev.op = "set_cmd" /\ ev.res = "created" /\ ev.chat_id = 100
    /\ ev.args = ARGS_BAN_T
    /\ {a.target_command : a \in Registered(100, <<ALIAS_BAN>>)}
         = {<<98, 97, 110, 95, 116>>}
----------------------------------------------------------------------------
(* The secondary participant of a personal command: the local directory    *)
(* (the users table) and Telegram's directory (get_chat)                   *)

\* rows of the users table a restored backup can hold (import_backup.py
\* writes the rows of a dump as they are): a handle that extends Bob's, the
\* same handle stored with its '@', and a handle that extends the one
\* Telegram knows as carol_x, and a handle that holds carol_x in no place
LongBob == [user_id |-> 8, username |-> <<66, 111, 98, 98, 121, 95, 74, 114>>,        \* "Bobby_Jr"
            full_name |-> <<74, 117, 110, 105, 111, 114>>]
AtBob == [user_id |-> 6, username |-> <<64, 98, 111, 98, 98, 121, 95, 106, 114>>,    \* "@bobby_jr"
          full_name |-> <<65, 116, 98, 111, 98>>]
SubCarol == [user_id |-> 11, username |-> <<99, 97, 114, 111, 108, 95, 120, 121>>,        \* "carol_xy"
             full_name |-> <<67, 97, 114, 121, 108>>]
Carolax == [user_id |-> 12, username |-> <<99, 97, 114, 111, 108, 97, 120>>,          \* "carolax"
            full_name |-> <<75, 97, 114, 111, 108, 97>>]

TXT_TEMPLATE_JR ==                                  \* "pryvit @bobby_jr"
    TXT_TEMPLATE \o <<32, 64, 98, 111, 98, 98, 121, 95, 106, 114>>
TXT_TEMPLATE_CAROL ==                               \* "pryvit @carol_x oho"
    TXT_TEMPLATE \o <<32, 64, 99, 97, 114, 111, 108, 95, 120, 32, 111, 104, 111>>
TXT_TEMPLATE_GHOST_T ==                             \* "pryvit @ghostuser oho"
    TXT_TEMPLATE_GHOST \o <<32, 111, 104, 111>>

InitResolve ==
    /\ \E directory \in SUBSET {Bob, ShortBob, LongBob, AtBob, SubCarol, Carolax} :
          InitWith(directory)
    /\ foreign_keys = FALSE
    /\ pair = NoPair(None)

ResolveTexts ==
    {TXT_TEMPLATE, TXT_TEMPLATE_BOBBY, TXT_TEMPLATE_BOB, TXT_TEMPLATE_JR,
     TXT_TEMPLATE_CAROL, TXT_TEMPLATE_GHOST_T}

\* a member writes personal commands in chat 100, alone or as a reply to a
\* message of the head admin
NextResolve ==
    \E t \in ResolveTexts : \E reply_to \in {None, 7} :
        TextMessage(1, 100, t, reply_to, 1)

SpecResolve == InitResolve /\ [][NextResolve]_vars

\* the remainder of a text that starts with the command "pryvit", and the
\* handle the pattern of line 6478 finds in it
Remainder == strip(SubStr(ev.text, Len(TXT_TEMPLATE) + 1, Len(ev.text)))
HandleSeen == username_search(Remainder)

\* the rows of the local directory a handle hits in each tier
Named == {r \in users : r.username # <<>>}
ExactRows(h) == {r \in Named : sql_lower(r.username) = sql_lower(h)}
AtRows(h) == {r \in Named : sql_lower(r.username) = sql_lower(<<64>> \o h)}
SubstringRows(h) ==
    {r \in Named : \E i \in 1..(Len(r.username) - Len(h) + 1) :
        sql_lower(SubSeq(r.username, i, i + Len(h) - 1)) = sql_lower(h)}
External(h) == {a \in TelegramDirectory : lower(a.username) = lower(h)}
Ids(rows) == {r.user_id : r \in rows}

\* a personal command was matched and its remainder holds a handle
HandleCase == TextSeen /\ ev.matched /\ HandleSeen # <<>>

\* C21: the secondary participant of a personal command whose remainder
\* holds a handle is a row of the first tier that hits: a row whose handle
\* equals the token without regard to case, else a row whose handle is the
\* token with '@' before it, else a row whose handle holds the token as a
\* substring, and only when no row of the local directory hits in any of
\* the three the account Telegram's directory holds for the handle (else
\* the author of the message replied to, or nobody).
C21_TiersInStrictOrder ==
    HandleCase =>
        LET h == HandleSeen
        IN  IF ExactRows(h) # {} THEN ev.target_id \in Ids(ExactRows(h))
            ELSE IF AtRows(h) # {} THEN ev.target_id \in Ids(AtRows(h))
            ELSE IF SubstringRows(h) # {}
                 THEN ev.target_id \in Ids(SubstringRows(h))
            ELSE IF External(h) # {}
                 THEN ev.target_id \in {a.id : a \in External(h)}
            ELSE ev.target_id = ev.reply_to

\* the same with the third tier as SQLite computes it (LIKE, where '_' in
\* the token stands for any one character)
TiersAsQueried ==
    HandleCase =>
        LET h == HandleSeen
            like == {r \in Named : sql_like_contains(r.username, h)}
        IN  IF ExactRows(h) # {} THEN ev.target_id \in Ids(ExactRows(h))
            ELSE IF AtRows(h) # {} THEN ev.target_id \in Ids(AtRows(h))
            ELSE IF like # {} THEN ev.target_id \in Ids(like)
            ELSE IF External(h) # {}
                 THEN ev.target_id \in {a.id : a \in External(h)}
            ELSE ev.target_id = ev.reply_to
----------------------------------------------------------------------------
(* Registration of personal commands: /set_personal                        *)

ARGS_HUG == <<<<1086, 1073, 1110, 1081, 1085, 1103, 1090, 1080>>, <<64, 115, 49>>, <<1086, 1073, 1110, 1081, 1084, 1072, 1108>>, <<64, 115, 50>>>>        \* "obiiniaty @s1 obiimaie @s2"
ARGS_HUG_UPPER == <<<<1086, 1073, 1110, 1081, 1085, 1103, 1090, 1080>>, <<64, 83, 49>>, <<1086, 1073, 1110, 1081, 1084, 1072, 1108>>, <<64, 83, 50>>>>  \* "obiiniaty @S1 obiimaie @S2"
ARGS_HUG_NONE == <<<<1086, 1073, 1110, 1081, 1085, 1103, 1090, 1080>>, <<1086, 1073, 1110, 1081, 1084, 1072, 1108>>, <<1091, 1089, 1110, 1093>>>>   \* "obiiniaty obiimaie usikh"
ARGS_HUG_GLUED == <<<<1086, 1073, 1110, 1081, 1085, 1103, 1090, 1080>>, <<1086, 1073, 1110, 1081, 1084, 1072, 1108, 40, 64, 115, 50, 41>>>>  \* "obiiniaty obiimaie(@s2)"
ARGS_NO_NAME == <<<<64, 115, 49>>, <<1086, 1073, 1110, 1081, 1084, 1072, 1108>>, <<64, 115, 50>>>>    \* "@s1 obiimaie @s2"

RegisterArgs ==
    {ARGS_HI, ARGS_HUG, ARGS_HUG_UPPER, ARGS_HUG_NONE, ARGS_HUG_GLUED,
     ARGS_NO_NAME}

\* the owner, the head admin and (refused) a member register personal
\* commands in the chats 100 and 600; a member writes in chat 100 in reply to
\* a message of the head admin
NextRegister ==
    \/ \E u \in {9, 7, 1} : \E c \in {100, 600} : \E a \in RegisterArgs :
          SetPersonal(u, c, a)
    \/ \E t \in {TXT_HELLO, TXT_TEMPLATE} : TextMessage(1, 100, t, 7, 1)

SpecRegister == Init /\ [][NextRegister]_vars

\* s holds one of the placeholders the renderer replaces (bot.py:6520)
HoldsPlaceholder(s) ==
    \E p \in {PLACEHOLDER_S1, PLACEHOLDER_S2, PLACEHOLDER_T} :
        find_from(s, p, 1) > 0

\* a /set_personal whose arguments hold no placeholder leaves the personal
\* commands as they were
RejectedStep ==
    (ev'.op = "set_personal" /\ ~HoldsPlaceholder(join(ev'.args)))
        => /\ personal_commands' = personal_commands
           /\ ev'.res # "created"

\* C22: /set_personal refuses a template without @s1, @s2 and @t and then
\* leaves the personal commands as they were; in every state the template
\* of every personal command holds at least one of @s1, @s2, @t.
C22_TemplatesHoldPlaceholder ==
    /\ [](\A c \in personal_commands : HoldsPlaceholder(c.template_text))
    /\ [][RejectedStep]_vars

\* C28: every personal command has a name that is not empty, so none is a
\* prefix of every text of its chat.
C28_NamesNotEmpty ==
    \A c \in personal_commands :
        /\ c.command_name # <<>>
        /\ ~startswith(lower(TXT_HELLO), lower(c.command_name))
----------------------------------------------------------------------------
(* Media pools: /set_cmdm and /del_cmdm                                    *)

\* the owner and (refused) a member add media to the pool of the command
\* "pryvit" of chat 100 and remove media from it, in reply to a photo, a
\* sticker, a text or to nothing
NextMedia ==
    \/ \E u \in {9, 1} : \E r \in {PHOTO, STICKER, Replied("text", "")} :
          SetCmdm(u, 100, NAME_HI, r)
    \/ \E u \in {9, 1} :
          \E r \in {PHOTO, STICKER, Replied("text", ""), Replied("no_reply", "")} :
             DelCmdm(u, 100, NAME_HI, r)
    \/ DelCmdm(9, 100, NAME_HI_ALL, PHOTO)

SpecMedia == Init /\ [][NextMedia]_vars

\* the pool of a command: the media rows with its id
Pool(media, command_id) == {m \in media : m.command_id = command_id}

\* the last update was this command on media, sent by an owner or head admin
\* in reply to a media message, and named a personal command of its chat
MediaCase(e, op) ==
    /\ e.op = op
    /\ OwnerOrHeadAdmin(e.user_id)
    /\ e.replied.type \in {"photo", "animation", "video", "sticker"}
    /\ \E c \in personal_commands :
          c.chat_id = e.chat_id /\ c.command_name = lower(e.text)

NamedCommand(e) ==
    CHOOSE c \in personal_commands :
        c.chat_id = e.chat_id /\ c.command_name = lower(e.text)

\* /set_cmdm adds one row to the pool, whatever the pool holds
AddStep ==
    MediaCase(ev', "set_cmdm") =>
        \E m \in personal_command_media' \ personal_command_media :
            /\ personal_command_media' = personal_command_media \cup {m}
            /\ m.command_id = NamedCommand(ev').id
            /\ m.file_id = ev'.replied.file_id
            /\ Cardinality(Pool(personal_command_media', m.command_id))
                 = Cardinality(Pool(personal_command_media, m.command_id)) + 1

\* /del_cmdm in reply to a media of the pool removes one row of that media
RemoveStep ==
    (/\ MediaCase(ev', "del_cmdm")
     /\ \E m \in Pool(personal_command_media, NamedCommand(ev').id) :
           m.file_id = ev'.replied.file_id)
        => \E m \in Pool(personal_command_media, NamedCommand(ev').id) :
              /\ m.file_id = ev'.replied.file_id
              /\ personal_command_media' = personal_command_media \ {m}

\* C23: /set_cmdm adds exactly one row to the pool of the command, also
\* when the pool already holds the same file; /del_cmdm removes exactly one
\* row of the file replied to, so that of n rows with that file n-1 are
\* left, and leaves every other row as it was.
C23_PoolGrowsAndShrinksByOne == [][AddStep /\ RemoveStep]_vars

\* a photo was removed from the pool of "pryvit" and the pool still holds
\* the same photo
C23_Witness ==
    /\ ev.op = "del_cmdm" /\ ev.res = "deleted"
    /\ \E m \in Pool(personal_command_media, 1) :
          m.file_id = ev.replied.file_id
----------------------------------------------------------------------------
(* The stages after the session stage: phrases, restore code, aliases      *)

ARGS_ADMINS_BAN_T == <<<<1072, 1076, 1084, 1110, 1085, 1080>>, <<98, 97, 110, 95, 116>>>>      \* "adminy ban_t"
ARGS_MARRY_ALL_BAN_T == <<<<1086, 1076, 1088, 1091, 1078, 1080, 1090, 1080>>, <<1074, 1089, 1110, 1093>>, <<98, 97, 110, 95, 116>>>>   \* "odruzhyty vsikh ban_t"
ARGS_CODE_BAN_T == <<<<97, 51, 100, 102, 98, 48, 48, 49, 51, 99, 52, 101>>, <<98, 97, 110, 95, 116>>>>        \* "a3dfb0013c4e ban_t"
ARGS_LABEL_BAN_T == <<<<1082, 1086, 1076, 58>>, <<97, 51, 100, 102, 98, 48, 48, 49, 51, 99, 52, 101>>, <<98, 97, 110, 95, 116>>>>       \* "kod: a3dfb0013c4e ban_t"
TXT_MARRY_ALL == <<1086, 1076, 1088, 1091, 1078, 1080, 1090, 1080, 32, 1074, 1089, 1110, 1093>>          \* "odruzhyty vsikh"

StageArgs ==
    {ARGS_ADMINS_BAN_T, ARGS_MARRY_ALL_BAN_T, ARGS_CODE_BAN_T, ARGS_LABEL_BAN_T}

StageTexts ==
    {TXT_HELLO, TXT_BAN, TXT_ADMINS, TXT_MARRY_ALL, TXT_CODE, TXT_CODE_LABEL}

\* the owner registers aliases of chat 100 that are also a phrase or a
\* restore code; the owner and the head admin, who open no session, write
\* in chat 100
NextStages ==
    \/ \E a \in StageArgs : SetCmd(9, 100, a)
    \/ \E u \in {9, 7} : \E t \in StageTexts : TextMessage(u, 100, t, None, 1)

SpecStages == Init /\ [][NextStages]_vars

\* the text of the last update as the stages see it
StageText == lower(strip(ev.text))

\* the last update was a text of an owner or head admin without a session
\* that matched no personal command
StagesCase ==
    TextSeen /\ OwnerOrHeadAdmin(ev.user_id) /\ ~HadSession /\ ~ev.matched

\* C24: for an owner or head admin without a session whose text matches no
\* personal command, the first of phrase, restore code and alias that the
\* text matches handles the update and the later ones are not reached: a
\* phrase runs the phrase's command also when the text is an alias of the
\* chat, a restore code ends at the restore stage also when it is an alias,
\* an alias runs only for a text that is neither, and any other text ends
\* with nothing sent.
C24_FirstMatchingStageHandles ==
    StagesCase =>
        IF phrase_command(StageText) # <<>>
        THEN /\ ev.end = "phrase"
             /\ ev.called = phrase_command(StageText)[1]
             /\ ev.args = phrase_command(StageText)[2]
             /\ ev.stages \cap {"restore", "alias"} = {}
        ELSE IF code_search(StageText) # <<>> \/ is_bare_code(StageText)
        THEN /\ ev.end = "restore"
             /\ "alias" \notin ev.stages
             /\ ev.called # "COMMAND_HANDLERS"
        ELSE IF LongestRun(ev.chat_id, split(StageText)) > 0
        THEN ev.end = "alias" /\ ev.called = "COMMAND_HANDLERS"
        ELSE ev.end = "none" /\ ev.out = <<>> /\ ev.called = NoneStr

\* the phrase "adminy" listed the administrators while it was an alias of
\* chat 100 for ban_t
C24_Witness ==
    /\ StagesCase /\ ev.text = TXT_ADMINS /\ ev.end = "phrase"
    /\ ev.called = "admin_list_command"
    /\ Registered(100, <<TXT_ADMINS>>) # {}
----------------------------------------------------------------------------
(* Switching between the modes: toggles in two chats                       *)

\* the head admin and the gnome toggle sayon and sayson in the chats 100 and
\* 600, with no argument, with a chat id and with a word that is no number;
\* a member, who may not, tries too
NextSwitch ==
    \/ \E u \in {7, 3} : \E c \in {100, 600} :
          \E a \in {<<>>, <<ARG_800>>, <<ARG_ABC>>} : SayOn(u, c, a)
    \/ \E u \in {7, 3} : \E c \in {100, 600} :
          \E a \in {<<>>, <<ARG_800>>, <<ARG_ABC>>} : SaySon(u, c, a)
    \/ \E a \in {<<>>, <<ARG_ABC>>} : SayOn(1, 600, a)

SpecSwitch == Init /\ [][NextSwitch]_vars

\* the mode a toggle does not write
OtherMode(m) == IF m = "sayon" THEN "sayson" ELSE "sayon"

\* the rows of a user in a table of sessions
RowsOf(rows, user_id) == {r \in rows : r.user_id = user_id}

\* the step handles a toggle, with no argument or a chat id, of a user with
\* a role who is in the other mode
SwitchCase ==
    /\ ev'.op \in {"sayon", "sayson"}
    /\ ev'.user_id \in OWNER_IDS \cup DOMAIN roles
    /\ ev'.user_id \notin say_blocks
    /\ ev'.args \in {<<>>, <<ARG_800>>}
    /\ \E r \in RowsOf(online_modes, ev'.user_id) : r.mode = OtherMode(ev'.op)

\* C25: a toggle of one mode by a user who is in the other mode leaves, in
\* the one step that handles it, exactly one session of the user: in the
\* mode of the toggle, with the chat of the toggle as source and its
\* argument (none: unset) as target; the sessions of the others stay.
C25_ToggleOfOtherModeReplaces ==
    [][SwitchCase =>
         /\ RowsOf(online_modes', ev'.user_id)
              = {online_row_of(ev'.user_id, ev'.op, ev'.chat_id,
                               IF ev'.args = <<>> THEN None ELSE 800, now)}
         /\ online_modes' \ RowsOf(online_modes', ev'.user_id)
              = online_modes \ RowsOf(online_modes, ev'.user_id)]_vars

\* the head admin, signed in chat 100 with target 800, sent /sayson in chat
\* 600 and is anonymous there with no target
C25_Witness ==
    /\ ev.op = "sayson" /\ ev.user_id = 7 /\ ev.chat_id = 600
    /\ ev.before = {online_row_of(7, "sayon", 100, 800, now)}
    /\ RowsOf(online_modes, 7) = {online_row_of(7, "sayson", 600, None, now)}

\* the step handles a toggle whose first argument is no integer
BadArgCase == ev'.op \in {"sayon", "sayson"} /\ ev'.args = <<ARG_ABC>>

\* C26: a toggle whose first argument is no integer is answered with one
\* reply that reports an error and leaves the sessions as they were: who had
\* none has none, who was in a mode keeps it with its source and target.
C26_BadArgumentChangesNothing ==
    [][BadArgCase =>
         /\ online_modes' = online_modes
         /\ say_blocks' = say_blocks
         /\ Len(ev'.out) = 1 /\ ev'.out[1].kind = "reply"
         /\ ev'.out[1].to = ev'.chat_id
         /\ ev'.out[1].note \in {"bad_chat_id", "no_access", "say_blocked"}]_vars

\* the head admin, signed in chat 100 with target 800, sent /sayon abc in
\* chat 600 and is signed as before
C26_Witness ==
    /\ ev.op = "sayon" /\ ev.user_id = 7 /\ ev.chat_id = 600
    /\ ev.args = <<ARG_ABC>> /\ ev.res = "bad_arg"
    /\ ev.before = {online_row_of(7, "sayon", 100, 800, now)}
    /\ RowsOf(online_modes, 7) = ev.before
----------------------------------------------------------------------------
(* Say-blocks: a further property of SpecPair                              *)

\* C27: no text message of a sender who is say-blocked is forwarded by the
\* session stage, whether the session was opened before the block or not.
C27_BlockedSenderNotForwarded ==
    (TextSeen /\ ev.user_id \in say_blocks) => ~ev.forwarded
----------------------------------------------------------------------------
(* Removal of aliases: /set_cmd and /del_cmd                               *)

NAME_BAN == <<<<1073, 1072, 1085>>>>           \* "ban"
NAME_QUIET == <<<<1073, 1072, 1085>>, <<1090, 1080, 1093, 1086>>>>         \* "ban tykho"
NAME_QUIET_UP == <<<<1041, 1072, 1085>>, <<1058, 1080, 1093, 1086>>>>      \* "Ban Tykho"
NAME_EFIR == <<<<1077, 1092, 1110, 1088>>>>          \* "efir"

\* the owner registers the aliases "ban" and "ban tykho" in the chats 100 and
\* 600; the owner and (refused) a member remove aliases by the text they
\* were registered with
NextUnalias ==
    \/ \E c \in {100, 600} : \E a \in {ARGS_BAN_T, ARGS_QUIET_T} :
          SetCmd(9, c, a)
    \/ \E u \in {9, 1} : \E c \in {100, 600} :
          \E a \in {NAME_BAN, NAME_QUIET, NAME_QUIET_UP, NAME_EFIR} :
             DelCmd(u, c, a)

SpecUnalias == Init /\ [][NextUnalias]_vars

\* the step handles a /del_cmd of an owner or head admin whose words are an
\* alias of the chat
UnaliasCase ==
    /\ ev'.op = "del_cmd"
    /\ OwnerOrHeadAdmin(ev'.user_id)
    /\ Registered(ev'.chat_id, ev'.args) # {}

\* C29: /del_cmd with the words an alias of the chat was registered with,
\* one or several, removes that alias, which then resolves to nothing in the
\* chat, and removes no other alias.
C29_DelCmdRemovesTheAlias ==
    [][UnaliasCase =>
         /\ command_aliases' = command_aliases \ Registered(ev'.chat_id, ev'.args)
         /\ \A a \in command_aliases' :
               ~(a.chat_id = ev'.chat_id /\ a.alias_name = lower(join(ev'.args)))]_vars

\* s ends with t
EndsWith(s, t) ==
    Len(t) <= Len(s) /\ SubSeq(s, Len(s) - Len(t) + 1, Len(s)) = t

\* the accounts a handle resolves to: the row the users table returns for
\* it, else the account get_chat returns
ResolvedIds(h) ==
    IF get_user_by_username(h) # {} THEN Ids(get_user_by_username(h))
    ELSE {a.id : a \in External(h)}

\* a personal command was matched by a message that is a reply
ReplyCase == TextSeen /\ ev.matched /\ ev.reply_to # None

\* C30: when a message that matches a personal command is a reply and its
\* remainder holds a handle that resolves, locally or with get_chat, the
\* secondary participant is the handle's account and @t is the remainder
\* without the handle; the author of the message replied to is taken only
\* when the remainder holds no handle or the handle resolves nowhere, and
\* then @t is the whole remainder, the handle included.
C30_HandleBeforeReply ==
    ReplyCase =>
        /\ ev.res = "rendered" /\ Len(ev.out) = 1
        /\ IF HandleSeen # <<>> /\ ResolvedIds(HandleSeen) # {}
           THEN /\ ev.target_id \in ResolvedIds(HandleSeen)
                /\ ev.target_id # ev.reply_to
                /\ EndsWith(ev.out[1].text,
                            <<33, 32>> \o strip(replace(Remainder,
                                                        <<64>> \o HandleSeen,
                                                        <<>>)))
           ELSE /\ ev.target_id = ev.reply_to
                /\ EndsWith(ev.out[1].text, <<33, 32>> \o Remainder)

\* a member replied to the head admin with "pryvit @bobby zdorov" and the
\* secondary participant is Bob
C30_Witness ==
    /\ ReplyCase /\ ev.reply_to = 7 /\ ev.text = TXT_TEMPLATE_BOBBY
    /\ ev.target_id = Bob.user_id
=============================================================================
